---- MODULE Spec2Model ----
(***************************************************************************)
(* A model of tstest/natlab/vnet (vnet.go): one Network's NAT engine       *)
(* (strategy, port-mapping table, hairpin-flow cache), its link-layer      *)
(* dispatch, and the Server's connection workers and shutdown.             *)
(***************************************************************************)
EXTENDS Integers, Sequences, FiniteSets, TLC

(***************************************************************************)
(* Bounds of the model.                                                    *)
(***************************************************************************)
\* The wall clock (time.Now) runs from 0 to MaxTime.
MaxTime == 2
\* Iterations of doPortMap's allocation loop (the code's 20_000, scaled).
MaxTries == 2
\* Frames, datagrams and calls handled in one behaviour of the NAT engine.
MaxOps == 3
\* The same, for the behaviours of one LAN target and its peers.
MaxHairpinOps == 6
\* Frames read and writeEth calls in one behaviour of the link layer.
MaxLinkOps == 3
\* Frames read in one behaviour of the Server's shutdown.
MaxCloseOps == 2
\* NAT operations called in one behaviour of the concurrent callers.
MaxLockOps == 2
\* Frames and datagrams handled in a behaviour of the audit and write paths.
MaxAuditOps == 3
\* Agent connections Node 1 opens.
MaxAgentConns == 2
\* Frames and datagrams handled in a behaviour of the in-process services.
MaxServiceOps == 2
\* Packets a netstack has queued for its reader.
MaxQueued == 2
\* Calls of one connection's writePkt in a behaviour.
MaxStreamOps == 3
\* The size of the connection's bufio.Writer (2<<10 in the code), scaled to
\* the frames of the model: a header and a one-byte frame fit, longer
\* frames fill it.
WriterSize == 6
\* Calls made on the pooled GRO objects in a behaviour.
MaxGROOps == 5

(***************************************************************************)
(* Addresses.  A netip.Addr is a string, "" the zero (invalid) Addr; a     *)
(* netip.AddrPort is a record [addr, port], port a uint16.                 *)
(***************************************************************************)
AP(a, p) == [addr |-> a, port |-> p]
NoAP == AP("", 0)
IsValid(ap) == ap.addr # ""

Node1IP4 == "192.168.2.2"
Node2IP4 == "192.168.2.3"
Node1IP6 == "2052::50cc:ccff:fecc:cc01"
RouterLinkLocal == "fe80::1"
UnknownIP6 == "fe80::99"
Peer6 == "2000:52::9"
V6Addrs == {Node1IP6, RouterLinkLocal, UnknownIP6, Peer6}
Is6(a) == a \in V6Addrs

\* The Network under study: its router's LAN address and WAN address.
lanIP4 == "192.168.2.1"
wanIP4 == "2.1.1.1"
UnknownIP4 == "192.168.2.77"
Node3IP4 == "192.168.3.2"

\* Remote peers on the WAN.
Peers == {AP("52.52.0.9", 4000), AP("52.52.0.10", 4000)}

\* uint16 arithmetic.
U16(x) == x % 65536

(***************************************************************************)
(* Go maps as functions with a finite domain.                              *)
(***************************************************************************)
EmptyMap == [x \in {} |-> 0]
Has(m, k) == k \in DOMAIN m
Put(m, k, v) == [x \in DOMAIN m \cup {k} |-> IF x = k THEN v ELSE m[x]]
Del(m, k) == [x \in DOMAIN m \ {k} |-> m[x]]

(***************************************************************************)
(* The NAT strategy behind the NATTable interface.  Its implementations    *)
(* live outside vnet.go; the model keeps what the engine relies on: the    *)
(* strategy owns a table of public ports in use (in), picks an outgoing    *)
(* source port that neither it nor the Network's port mappings use, maps   *)
(* an incoming destination back through that table, and may refuse.        *)
(***************************************************************************)
NATTypes == {"easy", "hard"}
RequestedNATTypes == NATTypes \cup {"bogus"}
StrategyPorts == {32768, 49152}

NewNATTable(t) == [style |-> t, in |-> EmptyMap]

\* network.IsPublicPortUsed: a port mapping holds the WAN ip:port.
IsPublicPortUsed(pm, ap) == Has(pm, ap)

\* NATTable.IsPublicPortUsed: the strategy's own table holds the port.
StratIsPublicPortUsed(nt, ap) == Has(nt.in, ap.port)

\* NATTable.PickOutgoingSrc: every result the strategy may give, each with
\* the strategy's state after it.
PickOutgoingSrc(nt, pm, src, dst) ==
  {[res |-> NoAP, nt |-> nt]} \cup
  {[res |-> AP(wanIP4, p), nt |-> [nt EXCEPT !.in = Put(nt.in, p, src)]] :
     p \in {q \in StrategyPorts :
              \/ Has(nt.in, q) /\ nt.in[q] = src
              \/ ~Has(nt.in, q) /\ ~IsPublicPortUsed(pm, AP(wanIP4, q))}}

\* NATTable.PickIncomingDst.
PickIncomingDst(nt, src, dst) ==
  IF dst.addr = wanIP4 /\ Has(nt.in, dst.port) THEN nt.in[dst.port] ELSE NoAP

(***************************************************************************)
(* doNATOut, doNATIn, doPortMap.  Each is the set of outcomes of one call  *)
(* made with natMu held from entry to return: the result, the path taken   *)
(* (via) and the NAT state after the call.                                 *)
(***************************************************************************)
FlowKey(peer, lan) == [peerWAN |-> peer, lanAP |-> lan]

NatOutcome(res, via, nt, pm, pf) ==
  [res |-> res, via |-> via, natTable |-> nt, portMap |-> pm, portMapFlow |-> pf]

\* doNATOut without the look-up in portMapFlow.
doNATOutStrategyOnly(nt, pm, pf, src, dst) ==
  IF Is6(src.addr)
  THEN {NatOutcome(src, "v6", nt, pm, pf)}
  ELSE {NatOutcome(o.res, "strategy", o.nt, pm, pf) :
          o \in PickOutgoingSrc(nt, pm, src, dst)}

doNATOut(nt, pm, pf, src, dst) ==
  IF Is6(src.addr)
  THEN {NatOutcome(src, "v6", nt, pm, pf)}
  ELSE IF Has(pf, FlowKey(dst, src))
  THEN {NatOutcome(pf[FlowKey(dst, src)], "flow", nt, pm, pf)}
  ELSE {NatOutcome(o.res, "strategy", o.nt, pm, pf) :
          o \in PickOutgoingSrc(nt, pm, src, dst)}

\* doNATIn that leaves an expired entry in portMap.
doNATInKeepsExpired(nt, pm, pf, src, dst, t) ==
  IF Is6(dst.addr)
  THEN {NatOutcome(dst, "v6", nt, pm, pf)}
  ELSE IF Has(pm, dst)
  THEN IF t < pm[dst].expiry
       THEN {NatOutcome(pm[dst].dst, "portmap", nt, pm,
                        Put(pf, FlowKey(src, pm[dst].dst), dst))}
       ELSE {NatOutcome(NoAP, "expired", nt, pm, pf)}
  ELSE {NatOutcome(PickIncomingDst(nt, src, dst), "strategy", nt, pm, pf)}

\* doNATIn that translates IPv6 destinations like IPv4 ones.
doNATInNoV6(nt, pm, pf, src, dst, t) ==
  IF Has(pm, dst)
  THEN IF t < pm[dst].expiry
       THEN {NatOutcome(pm[dst].dst, "portmap", nt, pm,
                        Put(pf, FlowKey(src, pm[dst].dst), dst))}
       ELSE {NatOutcome(NoAP, "expired", nt, Del(pm, dst), pf)}
  ELSE {NatOutcome(PickIncomingDst(nt, src, dst), "strategy", nt, pm, pf)}

doNATIn(nt, pm, pf, src, dst, t) ==
  IF Is6(dst.addr)
  THEN {NatOutcome(dst, "v6", nt, pm, pf)}
  ELSE IF Has(pm, dst)
  THEN IF t < pm[dst].expiry
       THEN {NatOutcome(pm[dst].dst, "portmap", nt, pm,
                        Put(pf, FlowKey(src, pm[dst].dst), dst))}
       ELSE {NatOutcome(NoAP, "expired", nt, Del(pm, dst), pf)}
  ELSE {NatOutcome(PickIncomingDst(nt, src, dst), "strategy", nt, pm, pf)}

\* rand.N(uint16(n)): the values of [0, n) the model draws.
RandSamples == {0, 16384, 32767}
RandN(n) == {r \in RandSamples : r < n}

\* The random port without its base.
RandomExtPortNoBase(r) == U16(r)

\* wantExtPort = rand.N(uint16(32<<10)) + 32<<10, in uint16.
RandomExtPort(r) == U16(r + 32 * 1024)

PortMapOutcome(port, ok, via, pm) ==
  [gotPort |-> port, ok |-> ok, via |-> via, portMap |-> pm]

\* The allocation loop of doPortMap from iteration try on.
RECURSIVE AllocLoop(_, _, _, _, _, _)
AllocLoop(nt, pm, try, wanAP, dst, expiry) ==
  IF try >= MaxTries
  THEN {PortMapOutcome(0, FALSE, "exhausted", pm)}
  ELSE IF wanAP.port > 0 /\ ~StratIsPublicPortUsed(nt, wanAP)
  THEN {PortMapOutcome(wanAP.port, TRUE, IF try = 0 THEN "requested" ELSE "random",
                       Put(pm, wanAP, [dst |-> dst, expiry |-> expiry]))}
  ELSE UNION {AllocLoop(nt, pm, try + 1, AP(wanIP4, RandomExtPort(r)), dst, expiry) :
                r \in RandN(32 * 1024)}

\* doPortMap whose refresh keeps the entry's old expiry.
doPortMapKeepsExpiry(enabled, nt, pm, src, dstLANPort, wantExtPort, sec, t) ==
  LET wanAP == AP(wanIP4, wantExtPort)
      dst == AP(src, dstLANPort)
      found == {k \in DOMAIN pm : pm[k].dst = dst}
  IN  IF ~enabled
      THEN {PortMapOutcome(0, FALSE, "disabled", pm)}
      ELSE IF sec = 0
      THEN IF Has(pm, wanAP) /\ pm[wanAP].dst.addr = src
           THEN {PortMapOutcome(0, FALSE, "deleted", Del(pm, wanAP))}
           ELSE {PortMapOutcome(0, FALSE, "nodelete", pm)}
      ELSE IF found # {}
      THEN {PortMapOutcome(k.port, TRUE, "refreshed", pm) : k \in found}
      ELSE AllocLoop(nt, pm, 0, wanAP, dst, t + sec)

\* doPortMap that stores the last port it tried when it gives up.
doPortMapStoresOnFailure(enabled, nt, pm, src, dstLANPort, wantExtPort, sec, t) ==
  LET wanAP == AP(wanIP4, wantExtPort)
      dst == AP(src, dstLANPort)
      found == {k \in DOMAIN pm : pm[k].dst = dst}
  IN  IF ~enabled
      THEN {PortMapOutcome(0, FALSE, "disabled", pm)}
      ELSE IF sec = 0
      THEN IF Has(pm, wanAP) /\ pm[wanAP].dst.addr = src
           THEN {PortMapOutcome(0, FALSE, "deleted", Del(pm, wanAP))}
           ELSE {PortMapOutcome(0, FALSE, "nodelete", pm)}
      ELSE IF found # {}
      THEN {PortMapOutcome(k.port, TRUE, "refreshed",
                           [pm EXCEPT ![k] = [dst |-> dst, expiry |-> t + sec]]) :
              k \in found}
      ELSE {IF o.ok THEN o
            ELSE [o EXCEPT !.portMap = Put(pm, AP(wanIP4, 32768),
                                           [dst |-> dst, expiry |-> t + sec])] :
              o \in AllocLoop(nt, pm, 0, wanAP, dst, t + sec)}

\* doPortMap that never tries the requested external port.
doPortMapIgnoresRequest(enabled, nt, pm, src, dstLANPort, wantExtPort, sec, t) ==
  LET wanAP == AP(wanIP4, wantExtPort)
      dst == AP(src, dstLANPort)
      found == {k \in DOMAIN pm : pm[k].dst = dst}
  IN  IF ~enabled
      THEN {PortMapOutcome(0, FALSE, "disabled", pm)}
      ELSE IF sec = 0
      THEN IF Has(pm, wanAP) /\ pm[wanAP].dst.addr = src
           THEN {PortMapOutcome(0, FALSE, "deleted", Del(pm, wanAP))}
           ELSE {PortMapOutcome(0, FALSE, "nodelete", pm)}
      ELSE IF found # {}
      THEN {PortMapOutcome(k.port, TRUE, "refreshed",
                           [pm EXCEPT ![k] = [dst |-> dst, expiry |-> t + sec]]) :
              k \in found}
      ELSE AllocLoop(nt, pm, 0, AP(wanIP4, 0), dst, t + sec)

\* doPortMap without the search for the target's existing mapping.
doPortMapAlwaysAllocates(enabled, nt, pm, src, dstLANPort, wantExtPort, sec, t) ==
  LET wanAP == AP(wanIP4, wantExtPort)
      dst == AP(src, dstLANPort)
  IN  IF ~enabled
      THEN {PortMapOutcome(0, FALSE, "disabled", pm)}
      ELSE IF sec = 0
      THEN IF Has(pm, wanAP) /\ pm[wanAP].dst.addr = src
           THEN {PortMapOutcome(0, FALSE, "deleted", Del(pm, wanAP))}
           ELSE {PortMapOutcome(0, FALSE, "nodelete", pm)}
      ELSE AllocLoop(nt, pm, 0, wanAP, dst, t + sec)

doPortMap(enabled, nt, pm, src, dstLANPort, wantExtPort, sec, t) ==
  LET wanAP == AP(wanIP4, wantExtPort)
      dst == AP(src, dstLANPort)
      found == {k \in DOMAIN pm : pm[k].dst = dst}
  IN  IF ~enabled
      THEN {PortMapOutcome(0, FALSE, "disabled", pm)}
      ELSE IF sec = 0
      THEN IF Has(pm, wanAP) /\ pm[wanAP].dst.addr = src
           THEN {PortMapOutcome(0, FALSE, "deleted", Del(pm, wanAP))}
           ELSE {PortMapOutcome(0, FALSE, "nodelete", pm)}
      ELSE IF found # {}
      THEN {PortMapOutcome(k.port, TRUE, "refreshed",
                           [pm EXCEPT ![k] = [dst |-> dst, expiry |-> t + sec]]) :
              k \in found}
      ELSE AllocLoop(nt, pm, 0, wanAP, dst, t + sec)

(***************************************************************************)
(* MAC addresses ([6]byte), Nodes and the Network's configuration.         *)
(***************************************************************************)
Broadcast == <<255, 255, 255, 255, 255, 255>>
macAllRouters == <<51, 51, 0, 0, 0, 2>>
SolicitedNodeMAC == <<51, 51, 255, 0, 0, 1>>
RouterMAC == <<82, 238, 238, 238, 238, 1>>
Node1MAC == <<82, 204, 204, 204, 204, 1>>
Node2MAC == <<82, 204, 204, 204, 204, 2>>
StrangerMAC == <<82, 204, 204, 204, 204, 9>>
\* Node 3 is the Node of a second Network.
Node3MAC == <<82, 204, 204, 204, 204, 3>>

IsBroadcast(m) == m = Broadcast
IsIPv6Multicast(m) == m[1] = 51 /\ m[2] = 51

\* Server.nodeByMAC and network.nodesByMAC, network.nodesByIP (by LAN IPv4).
nodeByMAC == (Node1MAC :> "node1") @@ (Node2MAC :> "node2")
\* The keys of Server.nodeByMAC: the Nodes of both Networks.
AllNodeMACs == DOMAIN nodeByMAC \cup {Node3MAC}
nodesByIP == (Node1IP4 :> "node1") @@ (Node2IP4 :> "node2")
NodeMAC(n) == IF n = "node1" THEN Node1MAC ELSE Node2MAC

\* network.MACOfIP: <<mac, ok>>.
MACOfIP(ip) ==
  IF ip = lanIP4 THEN <<RouterMAC, TRUE>>
  ELSE IF Has(nodesByIP, ip) THEN <<NodeMAC(nodesByIP[ip]), TRUE>>
  ELSE <<<<0, 0, 0, 0, 0, 0>>, FALSE>>

\* nodeForDestIP without the fall-back to the MAC-learn cache.
nodeForDestIPNoCache(mac6, ip) ==
  IF Has(nodesByIP, ip) THEN <<nodesByIP[ip], TRUE>> ELSE <<"", FALSE>>

\* network.nodeForDestIP: <<node, ok>>, with the IPv6 fall-back to the
\* MAC-learn cache.
nodeForDestIP(mac6, ip) ==
  IF Has(nodesByIP, ip) THEN <<nodesByIP[ip], TRUE>>
  ELSE IF ~Is6(ip) THEN <<"", FALSE>>
  ELSE IF ~Has(mac6, ip) THEN <<"", FALSE>>
  ELSE IF Has(nodeByMAC, mac6[ip]) THEN <<nodeByMAC[mac6[ip]], TRUE>>
  ELSE <<"", FALSE>>

(***************************************************************************)
(* Frames.  An Ethernet frame is [dst, src, etype, pkt]; pkt is what the   *)
(* packet decoder finds in it: its kind, the IP (or ARP) source and        *)
(* destination with their UDP ports, an ARP/NDP target address and the     *)
(* UDP payload bytes.  NilFrame is a nil or short (< 12 bytes) buffer.     *)
(***************************************************************************)
Pkt(kind, src, dst, target, payload) ==
  [kind |-> kind, src |-> src, dst |-> dst, target |-> target, payload |-> payload]
Frame(dst, src, etype, pkt) == [dst |-> dst, src |-> src, etype |-> etype, pkt |-> pkt]
NilFrame == Frame(<<>>, <<>>, "", Pkt("", NoAP, NoAP, "", <<>>))

UDPPacket(src, dst, payload) == Pkt("udp", src, dst, "", payload)
etherType(dstAddr) == IF Is6(dstAddr) THEN "IPv6" ELSE "IPv4"

\* binary.BigEndian.Uint16 / AppendUint16 / Uint32 / AppendUint32.
BE16(b, i) == b[i] * 256 + b[i + 1]
BE32(b, i) == ((b[i] * 256 + b[i + 1]) * 256 + b[i + 2]) * 256 + b[i + 3]
PutBE16(x) == <<(x \div 256) % 256, x % 256>>
PutBE32(x) == <<(x \div 16777216) % 256, (x \div 65536) % 256, (x \div 256) % 256, x % 256>>

stunPort == 3478
pcpPort == 5351
\* len(buf) of the read loop: 16<<10.
bufLen == 16384

\* isNATPMP: UDP to port 5351 whose first payload byte is version 0.
isNATPMP(pkt) ==
  pkt.kind = "udp" /\ pkt.dst.port = pcpPort /\ Len(pkt.payload) > 0 /\ pkt.payload[1] = 0

(***************************************************************************)
(* writeEth: the set of writes it makes, one [to, conn, frame] for each    *)
(* registered writer the frame is handed to.                               *)
(***************************************************************************)
Write(w, mac, res) == [to |-> mac, conn |-> w[mac], frame |-> res]

\* writeEth without the test for a frame sent to its own source.
writeEthNoSelfCheck(w, res) ==
  IF res = NilFrame THEN {}
  ELSE IF IsBroadcast(res.dst) THEN {Write(w, mac, res) : mac \in DOMAIN w}
  ELSE IF Has(w, res.dst) THEN {Write(w, res.dst, res)}
  ELSE {}

writeEth(w, res) ==
  IF res = NilFrame THEN {}
  ELSE IF IsBroadcast(res.dst) THEN {Write(w, mac, res) : mac \in DOMAIN w}
  ELSE IF res.src = res.dst THEN {}
  ELSE IF Has(w, res.dst) THEN {Write(w, res.dst, res)}
  ELSE {}

\* mkIPLayer + serializedUDPPacket: the layer is chosen by the source
\* address; an IPv4 layer cannot carry an IPv6 destination and fails.
serializedUDPPacketOK(src, dst) == ~(~Is6(src.addr) /\ Is6(dst.addr))

\* WriteUDPPacketNoNAT: the router sends p to the Node that owns p.dst.
WriteUDPPacketNoNAT(w, mac6, p) ==
  LET nd == nodeForDestIP(mac6, p.dst.addr)
  IN  IF ~nd[2] THEN {}
      ELSE IF ~serializedUDPPacketOK(p.src, p.dst) THEN {}
      ELSE writeEth(w, Frame(NodeMAC(nd[1]), RouterMAC, etherType(p.dst.addr), p))

(***************************************************************************)
(* Packet handlers.  A handler works on the Network's mutable state        *)
(*   st = [natTable, portMap, portMapFlow, macOfIPv6]                      *)
(* and yields the set of its outcomes: the state after it, the writes it   *)
(* made to client connections (out) and the NAT calls it made (calls).     *)
(***************************************************************************)
NetState(nt, pm, pf, mac6) ==
  [natTable |-> nt, portMap |-> pm, portMapFlow |-> pf, macOfIPv6 |-> mac6]

Call(op, a, b, sec, res, ok, via, t) ==
  [op |-> op, a |-> a, b |-> b, sec |-> sec, res |-> res, ok |-> ok, via |-> via, now |-> t]

\* A record handed to pcapWriter.WritePacket: the interface and the bytes.
Rec(iface, frame) == [iface |-> iface, frame |-> frame]

\* serializedUDPPacket(src, dst, payload, nil): the IP packet without an
\* Ethernet header.
IPFrame(p) == Frame(<<>>, <<>>, "", p)

\* A handler's outcome: the state after it, the frames it handed to
\* writers, its NAT calls, the records it handed to the pcap sink without
\* looking at the error, and whether it panicked.
OutcomeR(st, out, calls, recs) ==
  [st |-> st, out |-> out, calls |-> calls, recs |-> recs, panic |-> FALSE]
Outcome(st, out, calls) == OutcomeR(st, out, calls, <<>>)
Panic(st) == [st |-> st, out |-> {}, calls |-> <<>>, recs |-> <<>>, panic |-> TRUE]

HandleUDPPacket(st, w, t, p) ==
  IF ~serializedUDPPacketOK(p.src, p.dst) THEN {Outcome(st, {}, <<>>)}
  ELSE
  {LET st2 == NetState(o.natTable, o.portMap, o.portMapFlow, st.macOfIPv6)
       c == Call("natIn", p.src, p.dst, 0, o.res, IsValid(o.res), o.via, t)
       p2 == [p EXCEPT !.dst = o.res]
   IN  IF ~IsValid(o.res) THEN OutcomeR(st2, {}, <<c>>, <<Rec("wan", IPFrame(p))>>)
       ELSE IF ~serializedUDPPacketOK(p2.src, p2.dst)
       THEN OutcomeR(st2, {}, <<c>>, <<Rec("wan", IPFrame(p))>>)
       ELSE OutcomeR(st2, WriteUDPPacketNoNAT(w, st2.macOfIPv6, p2), <<c>>,
                     <<Rec("wan", IPFrame(p)), Rec("lan", IPFrame(p2))>>) :
   o \in doNATIn(st.natTable, st.portMap, st.portMapFlow, p.src, p.dst, t)}

(***************************************************************************)
(* STUN.  A binding request is the byte string <<0, 1, txid>>, a binding   *)
(* response <<1, 1, txid, address, port / 256, port % 256>>, the address   *)
(* being the index of the mapped address in STUNAddrs.                     *)
(***************************************************************************)
STUNAddrs == <<wanIP4, Node1IP6, Node1IP4, Node2IP4>>
AddrCode(a) == CHOOSE i \in DOMAIN STUNAddrs : STUNAddrs[i] = a

BindingRequest(txid) == <<0, 1, txid>>

\* stun.ParseBindingRequest: <<ok, txid>>.
ParseBindingRequest(b) ==
  IF Len(b) = 3 /\ b[1] = 0 /\ b[2] = 1 THEN <<TRUE, b[3]>> ELSE <<FALSE, 0>>

\* stun.Response(txid, addrPort).
STUNResponse(txid, ap) == <<1, 1, txid, AddrCode(ap.addr)>> \o PutBE16(ap.port)

\* makeSTUNReply: <<ok, reply>>.
makeSTUNReply(req) ==
  LET parsed == ParseBindingRequest(req.payload)
  IN  IF ~parsed[1] THEN <<FALSE, req>>
      ELSE <<TRUE, UDPPacket(req.dst, req.src, STUNResponse(parsed[2], req.src))>>

\* Server.networkByWAN.Lookup: whether the Network owns the address, its
\* WAN IPv4 address or an address of its WAN IPv6 prefix.
networkByWAN(ip) == ip = wanIP4 \/ ip = Node1IP6

\* Server.routeUDPPacket: a datagram for port 3478 is answered in-process
\* and the answer routed in its turn; any other goes to the Network that
\* owns the destination, and is dropped when no Network does.
RECURSIVE routeUDPPacket(_, _, _, _)
routeUDPPacket(st, w, t, up) ==
  IF up.dst.port = stunPort
  THEN IF makeSTUNReply(up)[1]
       THEN routeUDPPacket(st, w, t, makeSTUNReply(up)[2])
       ELSE {Outcome(st, {}, <<>>)}
  ELSE IF networkByWAN(up.dst.addr) THEN HandleUDPPacket(st, w, t, up)
  ELSE {Outcome(st, {}, <<>>)}

wanIP4Bytes == <<2, 1, 1, 1>>

\* handleNATPMPRequest that replies whatever doPortMap reported.
handleNATPMPRequestRepliesAlways(st, w, t, enabled, req) ==
  IF ~enabled THEN {Outcome(st, {}, <<>>)}
  ELSE IF req.payload = <<0, 0>>
  THEN {Outcome(st,
          WriteUDPPacketNoNAT(w, st.macOfIPv6,
            UDPPacket(req.dst, req.src, <<0, 128, 0, 0>> \o PutBE32(t) \o wanIP4Bytes)),
          <<>>)}
  ELSE IF Len(req.payload) = 12 /\ req.payload[1] = 0 /\ req.payload[2] = 1
  THEN LET internalPort == BE16(req.payload, 5)
           wantExtPort == BE16(req.payload, 7)
           lifetimeSec == BE32(req.payload, 9)
       IN  {LET st2 == [st EXCEPT !.portMap = o.portMap]
                c == Call("portMap", AP(req.src.addr, internalPort), AP(wanIP4, wantExtPort),
                          lifetimeSec, AP(wanIP4, o.gotPort), o.ok, o.via, t)
            IN  Outcome(st2,
                       WriteUDPPacketNoNAT(w, st2.macOfIPv6,
                         UDPPacket(req.dst, req.src,
                           <<0, 129, 0, 0>> \o PutBE32(t) \o PutBE16(internalPort)
                             \o PutBE16(o.gotPort) \o PutBE32(lifetimeSec))),
                       <<c>>) :
            o \in doPortMap(enabled, st.natTable, st.portMap, req.src.addr,
                            internalPort, wantExtPort, lifetimeSec, t)}
  ELSE {Outcome(st, {}, <<>>)}

\* handleNATPMPRequest without its test of n.portmap, its map requests
\* granted as on a Network with port mapping enabled.
handleNATPMPRequestWhenDisabled(st, w, t, enabled, req) ==
  IF req.payload = <<0, 0>>
  THEN {Outcome(st,
          WriteUDPPacketNoNAT(w, st.macOfIPv6,
            UDPPacket(req.dst, req.src, <<0, 128, 0, 0>> \o PutBE32(t) \o wanIP4Bytes)),
          <<>>)}
  ELSE IF Len(req.payload) = 12 /\ req.payload[1] = 0 /\ req.payload[2] = 1
  THEN LET internalPort == BE16(req.payload, 5)
           wantExtPort == BE16(req.payload, 7)
           lifetimeSec == BE32(req.payload, 9)
       IN  {LET st2 == [st EXCEPT !.portMap = o.portMap]
                c == Call("portMap", AP(req.src.addr, internalPort), AP(wanIP4, wantExtPort),
                          lifetimeSec, AP(wanIP4, o.gotPort), o.ok, o.via, t)
            IN  IF ~o.ok THEN Outcome(st2, {}, <<c>>)
                ELSE Outcome(st2,
                       WriteUDPPacketNoNAT(w, st2.macOfIPv6,
                         UDPPacket(req.dst, req.src,
                           <<0, 129, 0, 0>> \o PutBE32(t) \o PutBE16(internalPort)
                             \o PutBE16(o.gotPort) \o PutBE32(lifetimeSec))),
                       <<c>>) :
            o \in doPortMap(TRUE, st.natTable, st.portMap, req.src.addr,
                            internalPort, wantExtPort, lifetimeSec, t)}
  ELSE {Outcome(st, {}, <<>>)}

handleNATPMPRequest(st, w, t, enabled, req) ==
  IF ~enabled THEN {Outcome(st, {}, <<>>)}
  ELSE IF req.payload = <<0, 0>>
  THEN {Outcome(st,
          WriteUDPPacketNoNAT(w, st.macOfIPv6,
            UDPPacket(req.dst, req.src, <<0, 128, 0, 0>> \o PutBE32(t) \o wanIP4Bytes)),
          <<>>)}
  ELSE IF Len(req.payload) = 12 /\ req.payload[1] = 0 /\ req.payload[2] = 1
  THEN LET internalPort == BE16(req.payload, 5)
           wantExtPort == BE16(req.payload, 7)
           lifetimeSec == BE32(req.payload, 9)
       IN  {LET st2 == [st EXCEPT !.portMap = o.portMap]
                c == Call("portMap", AP(req.src.addr, internalPort), AP(wanIP4, wantExtPort),
                          lifetimeSec, AP(wanIP4, o.gotPort), o.ok, o.via, t)
            IN  IF ~o.ok THEN Outcome(st2, {}, <<c>>)
                ELSE Outcome(st2,
                       WriteUDPPacketNoNAT(w, st2.macOfIPv6,
                         UDPPacket(req.dst, req.src,
                           <<0, 129, 0, 0>> \o PutBE32(t) \o PutBE16(internalPort)
                             \o PutBE16(o.gotPort) \o PutBE32(lifetimeSec))),
                       <<c>>) :
            o \in doPortMap(enabled, st.natTable, st.portMap, req.src.addr,
                            internalPort, wantExtPort, lifetimeSec, t)}
  ELSE {Outcome(st, {}, <<>>)}

(***************************************************************************)
(* The fake DNS server.  A DNS message is the byte string                  *)
(*   <<QR, OpCode, QDCount>> \o <<name, type, class>> per question,        *)
(* a name being the index of a host name in DNSNames; a response appends   *)
(* <<ANCount>> and <<name, type>> per answer.  The decoder of the DNS      *)
(* layer accepts a payload of exactly that length.                         *)
(***************************************************************************)
fakeDNS4 == "4.11.4.11"
DNSNames ==
  <<  <<"controlplane", "tailscale", "com">>,
      <<"0", "debian", "pool", "ntp", "org">>,
      <<"pool", "ntp", "org">>,
      <<"unknown", "example">>  >>
DNSTypeA == 1
DNSClassIN == 1
DNSOpCodeQuery == 0

\* The fixed hostname table: the names that have an address.
vips == {1}

\* mem.HasSuffix(name, ".pool.ntp.org"): the last three labels, with a
\* dot, so at least one label, before them.
HasSuffixPoolNTP(name) ==
  LET l == DNSNames[name]
      n == Len(l)
  IN  n > 3 /\ l[n - 2] = "pool" /\ l[n - 1] = "ntp" /\ l[n] = "org"

DNSMessage(qr, opcode, qs) == <<qr, opcode, Len(qs) \div 3>> \o qs

\* The DNS layer of a UDP payload: <<ok, message>>.
DecodeDNS(b) ==
  IF Len(b) >= 3 /\ Len(b) = 3 + 3 * b[3]
  THEN <<TRUE, [qr |-> b[1], opcode |-> b[2],
                questions |-> [i \in 1..b[3] |->
                                 [name |-> b[3 * i + 1], type |-> b[3 * i + 2],
                                  class |-> b[3 * i + 3]]]]>>
  ELSE <<FALSE, [qr |-> 0, opcode |-> 0, questions |-> <<>>]>>

\* isDNSRequest: a DNS query with questions, sent to port 53 of the fake
\* DNS server.
isDNSRequest(pkt) ==
  /\ pkt.kind = "udp"
  /\ pkt.dst.port = 53
  /\ pkt.dst.addr = fakeDNS4
  /\ DecodeDNS(pkt.payload)[1]
  /\ DecodeDNS(pkt.payload)[2].qr = 0
  /\ Len(DecodeDNS(pkt.payload)[2].questions) > 0

\* The loop of createDNSResponse over the questions from i on: <<drop,
\* answers>>, answers the bytes of the answers collected.
RECURSIVE DNSAnswers(_, _, _)
DNSAnswers(qs, i, answers) ==
  IF i > Len(qs) THEN <<FALSE, answers>>
  ELSE IF HasSuffixPoolNTP(qs[i].name) THEN <<TRUE, <<>>>>
  ELSE IF qs[i].class # DNSClassIN THEN DNSAnswers(qs, i + 1, answers)
  ELSE IF qs[i].type = DNSTypeA /\ qs[i].name \in vips
  THEN DNSAnswers(qs, i + 1, answers \o <<qs[i].name, qs[i].type>>)
  ELSE DNSAnswers(qs, i + 1, answers)

\* createDNSResponse that answers whatever the questions name.
RECURSIVE DNSAnswersNoDrop(_, _, _)
DNSAnswersNoDrop(qs, i, answers) ==
  IF i > Len(qs) THEN <<FALSE, answers>>
  ELSE IF qs[i].class # DNSClassIN THEN DNSAnswersNoDrop(qs, i + 1, answers)
  ELSE IF qs[i].type = DNSTypeA /\ qs[i].name \in vips
  THEN DNSAnswersNoDrop(qs, i + 1, answers \o <<qs[i].name, qs[i].type>>)
  ELSE DNSAnswersNoDrop(qs, i + 1, answers)

createDNSResponseNoDrop(ep) ==
  LET dns == DecodeDNS(ep.pkt.payload)[2]
      r == DNSAnswersNoDrop(dns.questions, 1, <<>>)
  IN  IF dns.opcode # DNSOpCodeQuery \/ dns.qr # 0 \/ Len(dns.questions) = 0
      THEN NilFrame
      ELSE Frame(ep.src, ep.dst, etherType(ep.pkt.dst.addr),
                 UDPPacket(ep.pkt.dst, ep.pkt.src,
                           <<1>> \o Tail(ep.pkt.payload) \o <<Len(r[2]) \div 2>> \o r[2]))

\* createDNSResponse: the reply frame, or NilFrame for (nil, nil).
createDNSResponse(ep) ==
  LET dns == DecodeDNS(ep.pkt.payload)[2]
      r == DNSAnswers(dns.questions, 1, <<>>)
  IN  IF dns.opcode # DNSOpCodeQuery \/ dns.qr # 0 \/ Len(dns.questions) = 0
      THEN NilFrame
      ELSE IF r[1] THEN NilFrame
      ELSE Frame(ep.src, ep.dst, etherType(ep.pkt.dst.addr),
                 UDPPacket(ep.pkt.dst, ep.pkt.src,
                           <<1>> \o Tail(ep.pkt.payload) \o <<Len(r[2]) \div 2>> \o r[2]))

(***************************************************************************)
(* The fake DHCP server.  A DHCPv4 message is the byte string              *)
(*   <<Operation, Xid, message type>>;                                     *)
(* the decoder of the DHCPv4 layer rejects a shorter payload (the fixed    *)
(* part of a real message is 240 bytes), and the packet then has no        *)
(* DHCPv4 layer.                                                           *)
(***************************************************************************)
IPv4Broadcast == "255.255.255.255"
DHCPMinLen == 3
DHCPOpRequest == 1
DHCPOpReply == 2
DHCPMsgTypeDiscover == 1
DHCPMsgTypeOffer == 2
DHCPMsgTypeRequest == 3
DHCPMsgTypeAck == 5

\* isDHCPRequest: IPv4, UDP, from port 68 to port 67; the payload is not
\* looked at.
isDHCPRequest(pkt) ==
  /\ pkt.kind = "udp"
  /\ ~Is6(pkt.src.addr)
  /\ pkt.dst.port = 67
  /\ pkt.src.port = 68

\* isMDNSQuery.
isMDNSQuery(pkt) == pkt.kind = "udp" /\ pkt.src.port = 5353 /\ pkt.dst.port = 5353

\* createDHCPResponse: [panic, frame]; frame is NilFrame for (nil, nil).
\* request.Layer(LayerTypeDHCPv4).(*layers.DHCPv4) panics when the packet
\* has no DHCPv4 layer.
createDHCPResponse(ep) ==
  IF ~Has(nodeByMAC, ep.src) THEN [panic |-> FALSE, frame |-> NilFrame]
  ELSE IF Len(ep.pkt.payload) < DHCPMinLen THEN [panic |-> TRUE, frame |-> NilFrame]
  ELSE LET xid == ep.pkt.payload[2]
           msgType == ep.pkt.payload[3]
           reply == IF msgType = DHCPMsgTypeDiscover THEN <<DHCPMsgTypeOffer>>
                    ELSE IF msgType = DHCPMsgTypeRequest THEN <<DHCPMsgTypeAck>>
                    ELSE <<>>
       IN  [panic |-> FALSE,
            frame |-> Frame(ep.src, RouterMAC, "IPv4",
                            UDPPacket(ep.pkt.dst, ep.pkt.src, <<DHCPOpReply, xid>> \o reply))]

\* The fake syslog server.
fakeSyslog4 == "4.11.4.12"

(***************************************************************************)
(* TCP interception.  The virtual addresses of the control plane, the two  *)
(* DERP relays, the log catcher, the test agent and the control-plane      *)
(* proxy; Server.blendReality and Server.derpIPs of a Server that does not *)
(* blend in the real network.                                              *)
(***************************************************************************)
fakeControl4 == "52.52.0.1"
fakeTestAgent4 == "52.52.0.2"
fakeLogCatcher4 == "52.52.0.4"
fakeProxyControlplane4 == "52.52.0.5"
fakeDERP1v4 == "33.4.0.1"
fakeDERP2v4 == "33.4.0.2"
blendReality == FALSE
derpIPs == {}

\* shouldInterceptTCP.
shouldInterceptTCP(pkt) ==
  IF pkt.kind # "tcp" THEN FALSE
  ELSE IF pkt.dst.port = 123 THEN TRUE
  ELSE IF (pkt.dst.port = 80 \/ pkt.dst.port = 443)
          /\ pkt.dst.addr \in {fakeControl4, fakeDERP1v4, fakeDERP2v4, fakeLogCatcher4}
  THEN TRUE
  ELSE IF (pkt.dst.port = 80 \/ pkt.dst.port = 443) /\ pkt.dst.addr = fakeProxyControlplane4
  THEN blendReality
  ELSE IF (pkt.dst.port = 80 \/ pkt.dst.port = 443) /\ pkt.dst.addr \in derpIPs
  THEN TRUE
  ELSE pkt.dst.port = 8008 /\ pkt.dst.addr = fakeTestAgent4

\* acceptTCP that proxies every stream no backend serves.
acceptTCPProxiesRest(destIP, destPort) ==
  IF destPort = 123 THEN "hello"
  ELSE IF destPort = 8008 /\ destIP = fakeTestAgent4 THEN "agent"
  ELSE IF destPort = 80 /\ destIP = fakeControl4 THEN "control"
  ELSE IF (destIP = fakeDERP1v4 \/ destIP = fakeDERP2v4) /\ destPort = 443
  THEN IF destIP = fakeDERP2v4 THEN "derps[1]" ELSE "derps[0]"
  ELSE IF (destIP = fakeDERP1v4 \/ destIP = fakeDERP2v4) /\ destPort = 80
  THEN "derps[0]"
  ELSE IF destPort = 443 /\ destIP = fakeLogCatcher4 THEN "logcatcher"
  ELSE "proxy"

\* acceptTCP for a connection to destIP:destPort: the backend the stream is
\* handed to, or "rst" when r.Complete(true) resets it.
acceptTCP(destIP, destPort) ==
  IF destPort = 123 THEN "hello"
  ELSE IF destPort = 8008 /\ destIP = fakeTestAgent4 THEN "agent"
  ELSE IF destPort = 80 /\ destIP = fakeControl4 THEN "control"
  ELSE IF (destIP = fakeDERP1v4 \/ destIP = fakeDERP2v4) /\ destPort = 443
  THEN IF destIP = fakeDERP2v4 THEN "derps[1]" ELSE "derps[0]"
  ELSE IF (destIP = fakeDERP1v4 \/ destIP = fakeDERP2v4) /\ destPort = 80
  THEN "derps[0]"
  ELSE IF destPort = 443 /\ destIP = fakeLogCatcher4 THEN "logcatcher"
  ELSE IF destIP \in derpIPs \/ destIP = fakeProxyControlplane4 THEN "proxy"
  ELSE "rst"

IPv4Unspecified == "0.0.0.0"
IsLinkLocalUnicast(ip) == ip \in {RouterLinkLocal, UnknownIP6}

\* The router's handler taking every NAT-PMP datagram for itself, wherever
\* it is addressed.
HandleEthernetPacketForRouterPMPAnywhere(st, w, t, enabled, ep) ==
  LET pkt == ep.pkt
      srcIP == pkt.src.addr
      dstIP == pkt.dst.addr
      toForward == dstIP # lanIP4 /\ dstIP # IPv4Unspecified /\ ~IsLinkLocalUnicast(dstIP)
      isUDP == pkt.kind = "udp"
      st1 == IF Is6(srcIP)
             THEN [st EXCEPT !.macOfIPv6 = Put(st.macOfIPv6, srcIP, ep.src)]
             ELSE st
  IN  IF isDHCPRequest(pkt)
      THEN IF createDHCPResponse(ep).panic THEN {Panic(st1)}
           ELSE {Outcome(st1, writeEth(w, createDHCPResponse(ep).frame), <<>>)}
      ELSE IF isMDNSQuery(pkt) THEN {Outcome(st1, {}, <<>>)}
      ELSE IF isDNSRequest(pkt)
      THEN {Outcome(st1, writeEth(w, createDNSResponse(ep)), <<>>)}
      ELSE IF isUDP /\ dstIP = fakeSyslog4 THEN {Outcome(st1, {}, <<>>)}
      ELSE IF isNATPMP(pkt)
      THEN handleNATPMPRequest(st1, w, t, enabled, pkt)
      ELSE IF toForward /\ isUDP
      THEN IF ~serializedUDPPacketOK(pkt.src, pkt.dst) THEN {Outcome(st1, {}, <<>>)}
           ELSE UNION
             {LET st2 == NetState(o.natTable, o.portMap, o.portMapFlow, st1.macOfIPv6)
                  c == Call("natOut", pkt.src, pkt.dst, 0, o.res, IsValid(o.res), o.via, t)
                  st3 == IF Is6(o.res.addr)
                         THEN [st2 EXCEPT !.macOfIPv6 = Put(st2.macOfIPv6, o.res.addr, ep.src)]
                         ELSE st2
                  lanRec == Rec("lan", IPFrame(UDPPacket(pkt.src, pkt.dst, pkt.payload)))
                  up == UDPPacket(o.res, pkt.dst, pkt.payload)
              IN  IF ~IsValid(o.res) THEN {OutcomeR(st2, {}, <<c>>, <<lanRec>>)}
                  ELSE IF ~serializedUDPPacketOK(o.res, pkt.dst)
                  THEN {OutcomeR(st2, {}, <<c>>, <<lanRec>>)}
                  ELSE {[r EXCEPT !.calls = <<c>> \o r.calls,
                                  !.recs = <<lanRec, Rec("wan", IPFrame(up))>> \o r.recs] :
                          r \in routeUDPPacket(st3, w, t, up)} :
              o \in doNATOut(st1.natTable, st1.portMap, st1.portMapFlow, pkt.src, pkt.dst)}
      ELSE IF toForward /\ shouldInterceptTCP(pkt)
      THEN LET via == acceptTCP(pkt.dst.addr, pkt.dst.port)
           IN  {Outcome(st1, {},
                        <<Call("acceptTCP", pkt.src, pkt.dst, 0, NoAP, via # "rst", via, t)>>)}
      ELSE {Outcome(st1, {}, <<>>)}

HandleEthernetPacketForRouter(st, w, t, enabled, ep) ==
  LET pkt == ep.pkt
      srcIP == pkt.src.addr
      dstIP == pkt.dst.addr
      toForward == dstIP # lanIP4 /\ dstIP # IPv4Unspecified /\ ~IsLinkLocalUnicast(dstIP)
      isUDP == pkt.kind = "udp"
      st1 == IF Is6(srcIP)
             THEN [st EXCEPT !.macOfIPv6 = Put(st.macOfIPv6, srcIP, ep.src)]
             ELSE st
  IN  IF isDHCPRequest(pkt)
      THEN IF createDHCPResponse(ep).panic THEN {Panic(st1)}
           ELSE {Outcome(st1, writeEth(w, createDHCPResponse(ep).frame), <<>>)}
      ELSE IF isMDNSQuery(pkt) THEN {Outcome(st1, {}, <<>>)}
      ELSE IF isDNSRequest(pkt)
      THEN {Outcome(st1, writeEth(w, createDNSResponse(ep)), <<>>)}
      ELSE IF isUDP /\ dstIP = fakeSyslog4 THEN {Outcome(st1, {}, <<>>)}
      ELSE IF ~toForward /\ isNATPMP(pkt)
      THEN handleNATPMPRequest(st1, w, t, enabled, pkt)
      ELSE IF toForward /\ isUDP
      THEN IF ~serializedUDPPacketOK(pkt.src, pkt.dst) THEN {Outcome(st1, {}, <<>>)}
           ELSE UNION
             {LET st2 == NetState(o.natTable, o.portMap, o.portMapFlow, st1.macOfIPv6)
                  c == Call("natOut", pkt.src, pkt.dst, 0, o.res, IsValid(o.res), o.via, t)
                  st3 == IF Is6(o.res.addr)
                         THEN [st2 EXCEPT !.macOfIPv6 = Put(st2.macOfIPv6, o.res.addr, ep.src)]
                         ELSE st2
                  lanRec == Rec("lan", IPFrame(UDPPacket(pkt.src, pkt.dst, pkt.payload)))
                  up == UDPPacket(o.res, pkt.dst, pkt.payload)
              IN  IF ~IsValid(o.res) THEN {OutcomeR(st2, {}, <<c>>, <<lanRec>>)}
                  ELSE IF ~serializedUDPPacketOK(o.res, pkt.dst)
                  THEN {OutcomeR(st2, {}, <<c>>, <<lanRec>>)}
                  ELSE {[r EXCEPT !.calls = <<c>> \o r.calls,
                                  !.recs = <<lanRec, Rec("wan", IPFrame(up))>> \o r.recs] :
                          r \in routeUDPPacket(st3, w, t, up)} :
              o \in doNATOut(st1.natTable, st1.portMap, st1.portMapFlow, pkt.src, pkt.dst)}
      ELSE IF toForward /\ shouldInterceptTCP(pkt)
      THEN LET via == acceptTCP(pkt.dst.addr, pkt.dst.port)
           IN  {Outcome(st1, {},
                        <<Call("acceptTCP", pkt.src, pkt.dst, 0, NoAP, via # "rst", via, t)>>)}
      ELSE {Outcome(st1, {}, <<>>)}

\* createARPResponse: the reply frame, or NilFrame for (nil, nil).
createARPResponse(ep) ==
  IF ep.pkt.kind # "arp-request" THEN NilFrame
  ELSE LET found == MACOfIP(ep.pkt.target)
       IN  IF ~found[2] THEN NilFrame
           ELSE Frame(ep.src, found[1], "ARP",
                      Pkt("arp-reply", AP(ep.pkt.target, 0), ep.pkt.src, "", <<>>))

\* handleIPv6RouterSolicitation: the router advertisement it writes.
handleIPv6RouterSolicitation(w, ep) ==
  writeEth(w, Frame(ep.src, RouterMAC, "IPv6",
                    Pkt("ra", AP(RouterLinkLocal, 0), AP(ep.pkt.src.addr, 0), "", <<>>)))

\* handleIPv6NeighborSolicitation that answers for every target.
handleIPv6NeighborSolicitationAnyTarget(w, ep) ==
  writeEth(w, Frame(ep.src, RouterMAC, "IPv6",
                    Pkt("na", AP(ep.pkt.target, 0), AP(ep.pkt.src.addr, 0),
                        ep.pkt.target, <<>>)))

\* handleIPv6NeighborSolicitation: answered for fe80::1 only.
handleIPv6NeighborSolicitation(w, ep) ==
  IF ep.pkt.target = RouterLinkLocal
  THEN writeEth(w, Frame(ep.src, RouterMAC, "IPv6",
                         Pkt("na", AP(ep.pkt.target, 0), AP(ep.pkt.src.addr, 0),
                             ep.pkt.target, <<>>)))
  ELSE {}

\* HandleEthernetPacket that keeps broadcast frames from the router.
HandleEthernetPacketBroadcastLANOnly(st, w, t, enabled, v6, ep) ==
  LET dstMAC == ep.dst
      isBroadcast == IsBroadcast(dstMAC)
      isV6SpecialMAC == dstMAC[1] = 51 /\ dstMAC[2] = 51
      forRouter == dstMAC = RouterMAC \/ isV6SpecialMAC
      isMcast == IsIPv6Multicast(dstMAC)
      lan == IF isBroadcast \/ ~forRouter THEN writeEth(w, ep) ELSE {}
      below == IF forRouter
               THEN {[r EXCEPT !.out = lan \cup r.out] :
                       r \in HandleEthernetPacketForRouter(st, w, t, enabled, ep)}
               ELSE {Outcome(st, lan, <<>>)}
  IN  CASE ep.etype = "ARP" -> {Outcome(st, writeEth(w, createARPResponse(ep)), <<>>)}
        [] ep.etype = "IPv6" ->
             IF ~v6 THEN {Outcome(st, {}, <<>>)}
             ELSE IF dstMAC = macAllRouters
             THEN IF ep.pkt.kind = "rs"
                  THEN {Outcome(st, handleIPv6RouterSolicitation(w, ep), <<>>)}
                  ELSE {Outcome(st, {}, <<>>)}
             ELSE IF (isMcast \/ dstMAC = RouterMAC) /\ ep.pkt.kind = "ns"
             THEN {Outcome(st, handleIPv6NeighborSolicitation(w, ep), <<>>)}
             ELSE IF isMcast THEN {Outcome(st, {}, <<>>)}
             ELSE below
        [] ep.etype = "IPv4" -> below
        [] OTHER -> {Outcome(st, {}, <<>>)}

HandleEthernetPacket(st, w, t, enabled, v6, ep) ==
  LET dstMAC == ep.dst
      isBroadcast == IsBroadcast(dstMAC)
      isV6SpecialMAC == dstMAC[1] = 51 /\ dstMAC[2] = 51
      forRouter == dstMAC = RouterMAC \/ isBroadcast \/ isV6SpecialMAC
      isMcast == IsIPv6Multicast(dstMAC)
      lan == IF isBroadcast \/ ~forRouter THEN writeEth(w, ep) ELSE {}
      below == IF forRouter
               THEN {[r EXCEPT !.out = lan \cup r.out] :
                       r \in HandleEthernetPacketForRouter(st, w, t, enabled, ep)}
               ELSE {Outcome(st, lan, <<>>)}
  IN  CASE ep.etype = "ARP" -> {Outcome(st, writeEth(w, createARPResponse(ep)), <<>>)}
        [] ep.etype = "IPv6" ->
             IF ~v6 THEN {Outcome(st, {}, <<>>)}
             ELSE IF dstMAC = macAllRouters
             THEN IF ep.pkt.kind = "rs"
                  THEN {Outcome(st, handleIPv6RouterSolicitation(w, ep), <<>>)}
                  ELSE {Outcome(st, {}, <<>>)}
             ELSE IF (isMcast \/ dstMAC = RouterMAC) /\ ep.pkt.kind = "ns"
             THEN {Outcome(st, handleIPv6NeighborSolicitation(w, ep), <<>>)}
             ELSE IF isMcast THEN {Outcome(st, {}, <<>>)}
             ELSE below
        [] ep.etype = "IPv4" -> below
        [] OTHER -> {Outcome(st, {}, <<>>)}

(***************************************************************************)
(* State.                                                                  *)
(***************************************************************************)
VARIABLES
  now,          \* the wall clock read by time.Now()
  portmap,      \* network.portmap: whether the Network supports port mapping
  v6,           \* network.v6: whether the Network supports IPv6
  budget,       \* the number of frames, datagrams and calls the environment offers
  natStyle,     \* network.natStyle
  natTable,     \* network.natTable: the active NAT strategy and its state
  portMap,      \* network.portMap: WAN ip:port -> [dst, expiry]
  portMapFlow,  \* network.portMapFlow: [peerWAN, lanAP] -> WAN ip:port
  macOfIPv6,    \* network.macOfIPv6: IPv6 source address -> MAC
  writers,      \* network.writers: MAC -> the connection whose writePkt is registered
  conns,        \* each client connection's ServeUnixConn call: where it is
  proto,        \* each connection's framing: "QEMU" (stream) or "DGRAM"
  registered,   \* each connection's deferred deregistrations (a set of MACs)
  afterFunc,    \* each connection's context.AfterFunc callback:
                \* "none", "armed", "running" or "ran" (the deadline is set)
  shuttingDown, \* Server.shuttingDown
  shutdownCtx,  \* whether Server.shutdownCtx is cancelled
  pcapWriter,   \* Server.pcapWriter: "open" or "closed"
  wg,           \* Server.wg: the WaitGroup's counter
  closePc,      \* the Close call: where it is
  natMu,        \* network.natMu: its holder, or NoHolder
  wpc,          \* each NAT caller: where it is in its NAT operation
  wop,          \* each NAT caller: the operation and its arguments
  wsnap,        \* each NAT caller: the NAT state it read
  wres,         \* each NAT caller: the result of its last operation
  logs,         \* the kinds of message logged so far
  inp,          \* the input of the last step: a frame read, a WAN datagram,
                \* a frame handed to writeEth; NoInput otherwise
  out,          \* the writes to client connections made by the last step
  calls,        \* the NAT calls made by the last step, in order
  nops,         \* frames, datagrams and calls handled so far
  recentIn,     \* history: [peerWAN, lanAP] -> WAN ip:port of the latest
                \* doNATIn that came back through a live port mapping
  promise,      \* history: the first doNATIn result through a live port
                \* mapping, with the expiry its entry had, or NoPromise
  granted,      \* history: LAN target -> the external port the latest
                \* successful doPortMap for it returned
  pcap,         \* the records the last step appended to the pcap sink
  crashed,      \* the process has panicked
  writeErr,     \* each connection: writes to it fail (bufio's sticky error,
                \* or the socket's)
  writeFailed,  \* history: the connections a write to which has failed
  agentConns,   \* Server.agentConns: the idle agent connections
  agentConnWaiter, \* Server.agentConnWaiter: Node -> the caller whose ready
                \* channel is registered
  tpc,          \* each takeAgentConn caller: where it is
  tgot,         \* each takeAgentConn caller: the connection it returned
  cancelled,    \* each takeAgentConn caller: whether its ctx is cancelled
  accepted,     \* history: the agent connections accepted so far
  missed,       \* history: the callers that were registering or in their
                \* select when a connection of their Node was added and
                \* that its signal did not wake
  writers2,     \* network.writers of the second Network
  reader,       \* where each Network's stack reader goroutine is
  linkQ,        \* network.linkEP: the packets each netstack has queued for its reader
  held,         \* who holds each mutex
  hprog,        \* what each concurrent handler has still to do to the mutexes
  regMAC,       \* the source MAC each read loop is about to register a writer for
  wire,         \* the bytes written to the stream connection uc
  bw,           \* the connection's bufio.Writer: its buffered bytes and its sticky error
  writeMu,      \* who holds the connection's writeMu
  pktPc,        \* where each caller of writePkt is
  pktOf,        \* the frame each caller of writePkt is writing
  lockOrder,    \* history: the frames in the order their writers took writeMu
  wcalls,       \* the number of writePkt calls made
  groObj,       \* each GRO object: gro.Dispatcher, maybeEnqueued and what its coalescer holds
  groAt,        \* where each GRO object is: not made yet, in groPool, or with a caller
  groSince,     \* history: the packets handed to each object's coalescer since its last Flush
  groDelivered, \* history: the packets delivered, each with the dispatcher it went to
  groOp,        \* the last call made on a GRO object
  gops          \* the number of calls made on GRO objects

cfgVars == <<portmap, v6, budget>>
natVars == <<natStyle, natTable, portMap, portMapFlow>>
netVars == <<natVars, macOfIPv6>>
connVars == <<writers, conns, proto, registered, afterFunc>>
srvVars == <<shuttingDown, shutdownCtx, pcapWriter, wg, closePc>>
lockVars == <<natMu, wpc, wop, wsnap, wres>>
histVars == <<recentIn, promise, granted>>
obsVars == <<out, calls, logs, inp, pcap>>
faultVars == <<crashed, writeErr, writeFailed>>
agentVars == <<agentConns, agentConnWaiter, tpc, tgot, cancelled, accepted, missed>>
net2Vars == <<writers2>>
stackVars == <<reader, linkQ>>
streamVars == <<wire, bw, writeMu, pktPc, pktOf, lockOrder, wcalls>>
groVars == <<groObj, groAt, groSince, groDelivered, groOp, gops>>
orderVars == <<held, hprog, regMAC, streamVars, groVars>>
vars == <<now, cfgVars, agentVars, orderVars, net2Vars, stackVars, netVars, connVars, srvVars, lockVars, obsVars, nops, histVars,
          faultVars>>

Conns == {"c1", "c2"}
Networks == {"net1", "net2"}
\* The callers of takeAgentConn: two for Node 1, the second of which has a
\* context that can be cancelled, and one for Node 2, whose context can be
\* cancelled too.
Takers == {"t1", "t2", "t3"}
CancellableTakers == {"t2", "t3"}
TakerNode(t) == IF t = "t3" THEN "node2" ELSE "node1"
AgentConn(node, id) == [node |-> node, id |-> id]
NoAgentConn == AgentConn("", 0)
\* The agent connections the Nodes open.
AgentConnsOffered ==
  {AgentConn("node1", i) : i \in 1..MaxAgentConns} \cup {AgentConn("node2", 1)}
Workers == {"w1", "w2"}
NoHolder == "none"
\* The mutexes: each Network's natMu and macMu, the Server's mu, and the
\* writeMu of the connection of a Node of each Network.
Mutex(mu, of) == [mu |-> mu, of |-> of]
natMuOf(n) == Mutex("natMu", n)
macMuOf(n) == Mutex("macMu", n)
ServerMu == Mutex("mu", "server")
writeMuOf(n) == Mutex("writeMu", n)
Mutexes ==
  {natMuOf(n) : n \in Networks} \cup {macMuOf(n) : n \in Networks}
  \cup {writeMuOf(n) : n \in Networks} \cup {ServerMu}
Input(kind, frame) == [kind |-> kind, frame |-> frame]
NoInput == Input("", NilFrame)
\* What one step appends to the pcap: the records of the reader and of the
\* handlers in order, and the records writePkt makes of the frames written.
NoRecords == [recs |-> <<>>, writes |-> {}]
NoPromise == [peer |-> NoAP, lan |-> NoAP, wan |-> NoAP, expiry |-> 0]
NoOp == [op |-> "", a |-> NoAP, b |-> NoAP, sec |-> 0, nat |-> ""]

State == NetState(natTable, portMap, portMapFlow, macOfIPv6)

\* vnet.New: the Server and its Network after construction.
New ==
  /\ now = 0
  /\ natStyle = "easy"
  /\ natTable = NewNATTable("easy")
  /\ portMap = EmptyMap
  /\ portMapFlow = EmptyMap
  /\ macOfIPv6 = EmptyMap
  /\ shuttingDown = FALSE
  /\ shutdownCtx = FALSE
  /\ pcapWriter = "open"
  /\ closePc = "idle"
  /\ natMu = NoHolder
  /\ wpc = [w \in Workers |-> "idle"]
  /\ wop = [w \in Workers |-> NoOp]
  /\ wsnap = [w \in Workers |-> State]
  /\ wres = [w \in Workers |-> NoAP]
  /\ logs = {}
  /\ out = {}
  /\ calls = <<>>
  /\ nops = 0
  /\ recentIn = EmptyMap
  /\ promise = NoPromise
  /\ granted = EmptyMap
  /\ inp = NoInput
  /\ pcap = NoRecords
  /\ crashed = FALSE
  /\ writeErr = [c \in Conns |-> FALSE]
  /\ writeFailed = {}
  /\ agentConns = {}
  /\ agentConnWaiter = EmptyMap
  /\ tpc = [t \in Takers |-> "idle"]
  /\ tgot = [t \in Takers |-> NoAgentConn]
  /\ cancelled = [t \in Takers |-> FALSE]
  /\ accepted = {}
  /\ missed = {}
  /\ writers2 = EmptyMap
  /\ reader = [n \in Networks |-> "read"]
  /\ linkQ = [n \in Networks |-> <<>>]
  /\ held = [m \in Mutexes |-> NoHolder]
  /\ hprog = [w \in Workers |-> <<>>]
  /\ regMAC = [c \in Conns |-> <<>>]
  /\ wire = <<>>
  /\ bw = [buf |-> <<>>, err |-> FALSE]
  /\ writeMu = NoHolder
  /\ pktPc = [w \in {"h1", "h2"} |-> "idle"]
  /\ pktOf = [w \in {"h1", "h2"} |-> <<>>]
  /\ lockOrder = <<>>
  /\ wcalls = 0
  /\ groObj = [g \in {"g1", "g2"} |-> [Dispatcher |-> "", maybeEnqueued |-> FALSE, held |-> <<>>]]
  /\ groAt = [g \in {"g1", "g2"} |-> "none"]
  /\ groSince = [g \in {"g1", "g2"} |-> 0]
  /\ groDelivered = <<>>
  /\ groOp = [op |-> "", g |-> "", pkt |-> "", handed |-> FALSE, flushed |-> FALSE]
  /\ gops = 0

\* No client has connected yet.
Constructed ==
  /\ New
  /\ writers = EmptyMap
  /\ conns = [c \in Conns |-> "idle"]
  /\ proto = [c \in Conns |-> "QEMU"]
  /\ registered = [c \in Conns |-> {}]
  /\ afterFunc = [c \in Conns |-> "none"]
  /\ wg = 0

\* Both Nodes have connected and Node 2 has sent its first frame: Node 2's
\* writer is registered, both ServeUnixConn calls are in the read loop.
Accepted ==
  /\ New
  /\ writers = (Node2MAC :> "c2")
  /\ conns = [c \in Conns |-> "read"]
  /\ proto = [c \in Conns |-> "QEMU"]
  /\ registered = ("c1" :> {}) @@ ("c2" :> {Node2MAC})
  /\ afterFunc = [c \in Conns |-> "armed"]
  /\ wg = 2

\* Both Nodes have connected and sent their first frame: each has its
\* writer registered and its ServeUnixConn call is in the read loop.
Connected ==
  /\ New
  /\ writers = (Node1MAC :> "c1") @@ (Node2MAC :> "c2")
  /\ conns = [c \in Conns |-> "read"]
  /\ proto = [c \in Conns |-> "QEMU"]
  /\ registered = ("c1" :> {Node1MAC}) @@ ("c2" :> {Node2MAC})
  /\ afterFunc = [c \in Conns |-> "armed"]
  /\ wg = 2

Init ==
  /\ Connected
  /\ portmap \in BOOLEAN
  /\ v6 = TRUE
  /\ budget = MaxOps

\* A step that handles no frame and makes no NAT call.
Quiet ==
  /\ out' = {}
  /\ calls' = <<>>
  /\ inp' = NoInput
  /\ pcap' = NoRecords

\* Writes to connection c start to fail: the client has shut down its
\* reading side (bw.Write, bw.Flush or WriteToUnix return an error).
ConnBreaks(c) ==
  /\ ~crashed
  /\ conns[c] = "read"
  /\ ~writeErr[c]
  /\ writeErr' = [writeErr EXCEPT ![c] = TRUE]
  /\ Quiet
  /\ UNCHANGED <<now, cfgVars, agentVars, orderVars, net2Vars, stackVars, crashed, writeFailed, netVars, connVars, srvVars, lockVars,
                 logs, nops, histVars>>

\* pcapWriter.WritePacket starts to return an error: the pcap file's disk
\* is full.
PcapFails ==
  /\ ~crashed
  /\ pcapWriter = "open"
  /\ pcapWriter' = "failing"
  /\ Quiet
  /\ UNCHANGED <<now, cfgVars, agentVars, orderVars, net2Vars, stackVars, faultVars, netVars, connVars, shuttingDown, shutdownCtx, wg,
                 closePc, lockVars, logs, nops, histVars>>

(***************************************************************************)
(* The idle agent connections: addIdleAgentConn and takeAgentConn, one     *)
(* step per critical section of Server.mu and per wake-up of the select.   *)
(***************************************************************************)
serverVars == <<now, cfgVars, orderVars, net2Vars, stackVars, netVars, connVars, srvVars, lockVars, obsVars, nops, histVars,
                faultVars>>

\* addIdleAgentConn(ac): the connection joins the pool; the non-blocking
\* send on the registered channel wakes its owner only if the owner is in
\* its select.
addIdleAgentConn(ac) ==
  /\ ~crashed
  /\ ac \notin accepted
  /\ accepted' = accepted \cup {ac}
  /\ agentConns' = agentConns \cup {ac}
  /\ IF Has(agentConnWaiter, ac.node) /\ tpc[agentConnWaiter[ac.node]] = "select"
     THEN tpc' = [tpc EXCEPT ![agentConnWaiter[ac.node]] = "one"]
     ELSE tpc' = tpc
  /\ missed' = missed \cup {t \in Takers : ac.node = TakerNode(t)
                                            /\ tpc[t] \in {"register", "select"}
                                            /\ tpc'[t] = tpc[t]}
  /\ UNCHANGED <<serverVars, agentConnWaiter, tgot, cancelled>>

\* takeAgentConn(ctx, n) is called for the Node of caller t.
takeAgentConn(t) ==
  /\ ~crashed
  /\ tpc[t] = "idle"
  /\ tpc' = [tpc EXCEPT ![t] = "one"]
  /\ UNCHANGED <<serverVars, agentConns, agentConnWaiter, tgot, cancelled, accepted, missed>>

\* takeAgentConnOne that leaves the connection it returns in the pool.
takeAgentConnOneKeeps(t) ==
  /\ ~crashed
  /\ tpc[t] = "one"
  /\ IF \E ac \in agentConns : ac.node = TakerNode(t)
     THEN \E ac \in agentConns :
            /\ ac.node = TakerNode(t)
            /\ agentConns' = agentConns
            /\ tgot' = [tgot EXCEPT ![t] = ac]
            /\ tpc' = [tpc EXCEPT ![t] = "done"]
     ELSE /\ tpc' = [tpc EXCEPT ![t] = "register"]
          /\ UNCHANGED <<agentConns, tgot>>
  /\ UNCHANGED <<serverVars, agentConnWaiter, cancelled, accepted, missed>>

\* takeAgentConnOne: some idle connection of the Node, if there is one.
takeAgentConnOne(t) ==
  /\ ~crashed
  /\ tpc[t] = "one"
  /\ IF \E ac \in agentConns : ac.node = TakerNode(t)
     THEN \E ac \in agentConns :
            /\ ac.node = TakerNode(t)
            /\ agentConns' = agentConns \ {ac}
            /\ tgot' = [tgot EXCEPT ![t] = ac]
            /\ tpc' = [tpc EXCEPT ![t] = "done"]
     ELSE /\ tpc' = [tpc EXCEPT ![t] = "register"]
          /\ UNCHANGED <<agentConns, tgot>>
  /\ UNCHANGED <<serverVars, agentConnWaiter, cancelled, accepted, missed>>

\* The caller registers a fresh ready channel, over any other.
RegisterWaiter(t) ==
  /\ ~crashed
  /\ tpc[t] = "register"
  /\ agentConnWaiter' = Put(agentConnWaiter, TakerNode(t), t)
  /\ tpc' = [tpc EXCEPT ![t] = "select"]
  /\ UNCHANGED <<serverVars, agentConns, tgot, cancelled, accepted, missed>>

\* The cases of the select that can fire without a send on ready.
SelectCasesNoTimer(isCancelled) == IF isCancelled THEN {"ctx"} ELSE {}

SelectCases(isCancelled) == {"timer"} \cup (IF isCancelled THEN {"ctx"} ELSE {})

\* <-time.After(time.Second): the caller tries again.
TimeAfter(t) ==
  /\ ~crashed
  /\ tpc[t] = "select"
  /\ "timer" \in SelectCases(cancelled[t])
  /\ tpc' = [tpc EXCEPT ![t] = "one"]
  /\ UNCHANGED <<serverVars, agentConns, agentConnWaiter, tgot, cancelled, accepted, missed>>

\* <-ctx.Done(): the caller returns (nil, false).
CtxDone(t) ==
  /\ ~crashed
  /\ tpc[t] = "select"
  /\ "ctx" \in SelectCases(cancelled[t])
  /\ tpc' = [tpc EXCEPT ![t] = "cancelled"]
  /\ UNCHANGED <<serverVars, agentConns, agentConnWaiter, tgot, cancelled, accepted, missed>>

\* The caller's context is cancelled.
CancelCtx(t) ==
  /\ ~crashed
  /\ ~cancelled[t]
  /\ tpc[t] \notin {"done", "cancelled"}
  /\ cancelled' = [cancelled EXCEPT ![t] = TRUE]
  /\ UNCHANGED <<serverVars, agentConns, agentConnWaiter, tpc, tgot, accepted, missed>>

\* time.Now() advances.
Tick ==
  /\ ~crashed
  /\ now < MaxTime
  /\ now' = now + 1
  /\ Quiet
  /\ UNCHANGED <<cfgVars, agentVars, orderVars, net2Vars, stackVars, faultVars, netVars, connVars, srvVars, lockVars, logs, nops, histVars>>

\* The record of one InitNAT call: the NAT type asked for and whether the
\* call returned a nil error.
InitNATCall(natType, ok, t) == Call("InitNAT", NoAP, NoAP, 0, NoAP, ok, natType, t)

\* InitNAT that installs what the constructor returned without looking at
\* its error.
InitNATIgnoresError(natType, ctorOK) ==
  /\ ~crashed
  /\ nops < budget
  /\ natMu = NoHolder
  /\ nops' = nops + 1
  /\ IF natType \in NATTypes
     THEN /\ natTable' = NewNATTable(natType)
          /\ natStyle' = natType
     ELSE UNCHANGED <<natTable, natStyle>>
  /\ out' = {}
  /\ calls' = <<InitNATCall(natType, natType \in NATTypes /\ ctorOK, now)>>
  /\ inp' = NoInput
  /\ pcap' = NoRecords
  /\ UNCHANGED <<now, cfgVars, agentVars, orderVars, net2Vars, stackVars, faultVars, portMap, portMapFlow, macOfIPv6, connVars, srvVars,
                 lockVars, logs, histVars>>

\* network.InitNAT: an unknown NAT type is an error and changes nothing,
\* and so is a constructor that returns an error (ctorOK is FALSE);
\* otherwise setNATTable installs the new strategy under natMu and the
\* style tag is stored.
InitNAT(natType, ctorOK) ==
  /\ ~crashed
  /\ nops < budget
  /\ natMu = NoHolder
  /\ nops' = nops + 1
  /\ IF natType \in NATTypes /\ ctorOK
     THEN /\ natTable' = NewNATTable(natType)
          /\ natStyle' = natType
     ELSE UNCHANGED <<natTable, natStyle>>
  /\ out' = {}
  /\ calls' = <<InitNATCall(natType, natType \in NATTypes /\ ctorOK, now)>>
  /\ inp' = NoInput
  /\ pcap' = NoRecords
  /\ UNCHANGED <<now, cfgVars, agentVars, orderVars, net2Vars, stackVars, faultVars, portMap, portMapFlow, macOfIPv6, connVars, srvVars,
                 lockVars, logs, histVars>>

\* The history variables after a step that made the NAT calls cs.
RECURSIVE GrantedAfter(_, _)
GrantedAfter(g, cs) ==
  IF cs = <<>> THEN g
  ELSE GrantedAfter(IF Head(cs).op = "portMap" /\ Head(cs).ok
                    THEN Put(g, Head(cs).a, Head(cs).res.port)
                    ELSE g,
                    Tail(cs))

RECURSIVE RecentAfter(_, _)
RecentAfter(r, cs) ==
  IF cs = <<>> THEN r
  ELSE RecentAfter(IF Head(cs).op = "natIn" /\ Head(cs).via = "portmap"
                   THEN Put(r, FlowKey(Head(cs).a, Head(cs).res), Head(cs).b)
                   ELSE r,
                   Tail(cs))

Promises(pm, cs) ==
  {[peer |-> cs[i].a, lan |-> cs[i].res, wan |-> cs[i].b, expiry |-> pm[cs[i].b].expiry] :
     i \in {j \in 1..Len(cs) : cs[j].op = "natIn" /\ cs[j].via = "portmap"}}

\* node.interfaceID of the Node that owns a MAC.
InterfaceOf(mac) == nodeByMAC[mac]

\* writePkt: a frame handed to a writer whose connection's writes fail is
\* logged and given up before it reaches the client or the pcap sink.
Delivered(ws) == {w \in ws : ~writeErr[w.conn]}
Failed(ws) == {w.conn : w \in ws \ Delivered(ws)}

\* writePkt's record of each frame it has written.
WriteRecs(ws) == {Rec(InterfaceOf(w.to), w.frame) : w \in ws}

\* The frames ws go through writePkt, the records recs to the pcap sink
\* after the records first.  The router's WritePacket calls drop the
\* error; writePkt's is wrapped in must.Do, which panics once the frame is
\* on the wire.
Emit(first, recs, ws, panic) ==
  IF pcapWriter = "failing"
  THEN IF Delivered(ws) = {}
       THEN /\ out' = {}
            /\ pcap' = NoRecords
            /\ crashed' = panic
            /\ writeFailed' = writeFailed \cup Failed(ws)
       ELSE \E w \in Delivered(ws), f \in SUBSET Failed(ws) :
              /\ out' = {w}
              /\ pcap' = NoRecords
              /\ crashed' = TRUE
              /\ writeFailed' = writeFailed \cup f
  ELSE /\ out' = Delivered(ws)
       /\ writeFailed' = writeFailed \cup Failed(ws)
       /\ pcap' = [recs |-> first \o recs, writes |-> WriteRecs(Delivered(ws))]
       /\ crashed' = panic

\* The Network takes a handler's outcome o.
Apply(o, first) ==
  /\ Emit(first, o.recs, o.out, o.panic)
  /\ nops' = nops + 1
  /\ natTable' = o.st.natTable
  /\ portMap' = o.st.portMap
  /\ portMapFlow' = o.st.portMapFlow
  /\ macOfIPv6' = o.st.macOfIPv6
  /\ calls' = o.calls
  /\ recentIn' = RecentAfter(recentIn, o.calls)
  /\ granted' = GrantedAfter(granted, o.calls)
  /\ promise' = IF promise = NoPromise /\ Promises(portMap, o.calls) # {}
                THEN CHOOSE pr \in Promises(portMap, o.calls) : TRUE
                ELSE promise

\* A datagram from the WAN reaches the Network: HandleUDPPacket.
WANPacket(p) ==
  /\ ~crashed
  /\ nops < budget
  /\ natMu = NoHolder
  /\ \E o \in HandleUDPPacket(State, writers, now, p) : Apply(o, <<>>)
  /\ inp' = Input("wan", Frame(<<>>, <<>>, "", p))
  /\ UNCHANGED <<now, cfgVars, agentVars, orderVars, net2Vars, stackVars, writeErr, natStyle, connVars, srvVars, lockVars, logs>>

(***************************************************************************)
(* Server.ServeUnixConn, one step per statement that other goroutines can  *)
(* interleave with, and Server.Close.                                      *)
(***************************************************************************)
Protocols == {"QEMU", "DGRAM"}

\* ServeUnixConn(uc, proto) is called for a new client connection.
ServeUnixConn(c, pr) ==
  /\ ~crashed
  /\ conns[c] = "idle"
  /\ conns' = [conns EXCEPT ![c] = "check"]
  /\ proto' = [proto EXCEPT ![c] = pr]
  /\ Quiet
  /\ UNCHANGED <<now, cfgVars, agentVars, orderVars, net2Vars, stackVars, faultVars, netVars, writers, registered, afterFunc, srvVars,
                 lockVars, logs, nops, histVars>>

\* if s.shuttingDown.Load() { return }
CheckShuttingDown(c) ==
  /\ ~crashed
  /\ conns[c] = "check"
  /\ conns' = [conns EXCEPT ![c] = IF shuttingDown THEN "returned" ELSE "add"]
  /\ Quiet
  /\ UNCHANGED <<now, cfgVars, agentVars, orderVars, net2Vars, stackVars, faultVars, netVars, writers, proto, registered, afterFunc, srvVars,
                 lockVars, logs, nops, histVars>>

\* s.wg.Add(1); defer s.wg.Done()
WgAdd(c) ==
  /\ ~crashed
  /\ conns[c] = "add"
  /\ wg' = wg + 1
  /\ conns' = [conns EXCEPT ![c] = "afterfunc"]
  /\ Quiet
  /\ UNCHANGED <<now, cfgVars, agentVars, orderVars, net2Vars, stackVars, faultVars, netVars, writers, proto, registered, afterFunc,
                 shuttingDown, shutdownCtx, pcapWriter, closePc, lockVars, logs, nops, histVars>>

\* context.AfterFunc(s.shutdownCtx, f): f is armed, or started in its own
\* goroutine at once when the context is already cancelled.
AfterFunc(c) ==
  /\ ~crashed
  /\ conns[c] = "afterfunc"
  /\ afterFunc' = [afterFunc EXCEPT ![c] = IF shutdownCtx THEN "running" ELSE "armed"]
  /\ conns' = [conns EXCEPT ![c] = "read"]
  /\ Quiet
  /\ UNCHANGED <<now, cfgVars, agentVars, orderVars, net2Vars, stackVars, faultVars, netVars, writers, proto, registered, srvVars,
                 lockVars, logs, nops, histVars>>

\* The AfterFunc goroutine runs uc.SetDeadline(time.Now()).
SetDeadline(c) ==
  /\ ~crashed
  /\ afterFunc[c] = "running"
  /\ afterFunc' = [afterFunc EXCEPT ![c] = "ran"]
  /\ Quiet
  /\ UNCHANGED <<now, cfgVars, agentVars, orderVars, net2Vars, stackVars, faultVars, netVars, writers, conns, proto, registered, srvVars,
                 lockVars, logs, nops, histVars>>

\* buf[4 : 4+n] for the uint32 n = binary.BigEndian.Uint32(hdr): whether the
\* slice expression is out of range.  4+n wraps around at 2^32.
SliceOutOfRange(hdr) ==
  LET wraps == hdr[1] = 255 /\ hdr[2] = 255 /\ hdr[3] = 255 /\ hdr[4] >= 252
      hi == IF wraps THEN hdr[4] - 252
            ELSE IF hdr[1] # 0 \/ hdr[2] # 0 THEN bufLen + 1
            ELSE 4 + hdr[3] * 256 + hdr[4]
  IN  hi < 4 \/ hi > bufLen

\* One iteration of the read loop on a length prefix hdr followed by that
\* many bytes that are no Ethernet frame.
ReadRaw(c, hdr) ==
  /\ ~crashed
  /\ conns[c] = "read"
  /\ afterFunc[c] # "ran"
  /\ proto[c] = "QEMU"
  /\ nops < budget
  /\ natMu = NoHolder
  /\ IF SliceOutOfRange(hdr)
     THEN crashed' = TRUE /\ logs' = logs
     ELSE crashed' = FALSE /\ logs' = logs \cup {"ignoring non-Ethernet packet"}
  /\ Quiet
  /\ nops' = nops + 1
  /\ UNCHANGED <<now, cfgVars, agentVars, orderVars, net2Vars, stackVars, writeErr, writeFailed, netVars, connVars, srvVars, lockVars,
                 histVars>>

\* The read loop's iteration registering a writer for a MAC no Node has.
ReadFrameRegistersUnknown(c, ep) ==
  /\ ~crashed
  /\ conns[c] = "read"
  /\ afterFunc[c] # "ran"
  /\ nops < budget
  /\ natMu = NoHolder
  /\ inp' = Input(IF ~Has(nodeByMAC, ep.src) THEN "unknown"
                   ELSE IF ~Has(writers, ep.src) THEN "register" ELSE "frame", ep)
  /\ IF ~Has(nodeByMAC, ep.src)
     THEN /\ logs' = logs \cup {"got frame from unknown MAC"}
          /\ out' = {}
          /\ calls' = <<>>
          /\ pcap' = NoRecords
          /\ nops' = nops + 1
          /\ writers' = Put(writers, ep.src, c)
          /\ registered' = [registered EXCEPT ![c] = @ \cup {ep.src}]
          /\ UNCHANGED <<netVars, histVars, crashed, writeFailed>>
     ELSE IF ~Has(writers, ep.src)
     THEN /\ writers' = Put(writers, ep.src, c)
          /\ registered' = [registered EXCEPT ![c] = @ \cup {ep.src}]
          /\ logs' = logs \cup {"Registering writer"}
          /\ out' = {}
          /\ calls' = <<>>
          /\ pcap' = NoRecords
          /\ nops' = nops + 1
          /\ UNCHANGED <<netVars, histVars, crashed, writeFailed>>
     ELSE IF pcapWriter = "failing"
     THEN /\ crashed' = TRUE
          /\ out' = {}
          /\ calls' = <<>>
          /\ pcap' = NoRecords
          /\ nops' = nops + 1
          /\ UNCHANGED <<netVars, writers, registered, histVars, logs, writeFailed>>
     ELSE /\ \E o \in HandleEthernetPacket(State, writers, now, portmap, v6, ep) :
               Apply(o, <<Rec(InterfaceOf(ep.src), ep)>>)
          /\ UNCHANGED <<natStyle, writers, registered, logs>>
  /\ UNCHANGED <<now, cfgVars, agentVars, orderVars, net2Vars, stackVars, writeErr, conns, proto, afterFunc, srvVars, lockVars>>

\* The read loop's iteration dispatching the frame that registers a writer.
ReadFrameDispatchesFirst(c, ep) ==
  /\ ~crashed
  /\ conns[c] = "read"
  /\ afterFunc[c] # "ran"
  /\ nops < budget
  /\ natMu = NoHolder
  /\ inp' = Input(IF ~Has(nodeByMAC, ep.src) THEN "unknown"
                   ELSE IF ~Has(writers, ep.src) THEN "register" ELSE "frame", ep)
  /\ IF ~Has(nodeByMAC, ep.src)
     THEN /\ logs' = logs \cup {"got frame from unknown MAC"}
          /\ out' = {}
          /\ calls' = <<>>
          /\ pcap' = NoRecords
          /\ nops' = nops + 1
          /\ UNCHANGED <<netVars, writers, registered, histVars, crashed, writeFailed>>
     ELSE IF ~Has(writers, ep.src)
     THEN /\ writers' = Put(writers, ep.src, c)
          /\ registered' = [registered EXCEPT ![c] = @ \cup {ep.src}]
          /\ logs' = logs \cup {"Registering writer"}
          /\ \E o \in HandleEthernetPacket(State, Put(writers, ep.src, c), now, portmap, v6, ep) :
               Apply(o, <<Rec(InterfaceOf(ep.src), ep)>>)
          /\ UNCHANGED natStyle
     ELSE IF pcapWriter = "failing"
     THEN /\ crashed' = TRUE
          /\ out' = {}
          /\ calls' = <<>>
          /\ pcap' = NoRecords
          /\ nops' = nops + 1
          /\ UNCHANGED <<netVars, writers, registered, histVars, logs, writeFailed>>
     ELSE /\ \E o \in HandleEthernetPacket(State, writers, now, portmap, v6, ep) :
               Apply(o, <<Rec(InterfaceOf(ep.src), ep)>>)
          /\ UNCHANGED <<natStyle, writers, registered, logs>>
  /\ UNCHANGED <<now, cfgVars, agentVars, orderVars, net2Vars, stackVars, writeErr, conns, proto, afterFunc, srvVars, lockVars>>

\* One iteration of the read loop on a frame ep read from c.
ReadFrame(c, ep) ==
  /\ ~crashed
  /\ conns[c] = "read"
  /\ afterFunc[c] # "ran"
  /\ nops < budget
  /\ natMu = NoHolder
  /\ inp' = Input(IF ~Has(nodeByMAC, ep.src) THEN "unknown"
                   ELSE IF ~Has(writers, ep.src) THEN "register" ELSE "frame", ep)
  /\ IF ~Has(nodeByMAC, ep.src)
     THEN /\ logs' = logs \cup {"got frame from unknown MAC"}
          /\ out' = {}
          /\ calls' = <<>>
          /\ pcap' = NoRecords
          /\ nops' = nops + 1
          /\ UNCHANGED <<netVars, writers, registered, histVars, crashed, writeFailed>>
     ELSE IF ~Has(writers, ep.src)
     THEN /\ writers' = Put(writers, ep.src, c)
          /\ registered' = [registered EXCEPT ![c] = @ \cup {ep.src}]
          /\ logs' = logs \cup {"Registering writer"}
          /\ out' = {}
          /\ calls' = <<>>
          /\ pcap' = NoRecords
          /\ nops' = nops + 1
          /\ UNCHANGED <<netVars, histVars, crashed, writeFailed>>
     ELSE IF pcapWriter = "failing"
     THEN /\ crashed' = TRUE
          /\ out' = {}
          /\ calls' = <<>>
          /\ pcap' = NoRecords
          /\ nops' = nops + 1
          /\ UNCHANGED <<netVars, writers, registered, histVars, logs, writeFailed>>
     ELSE /\ \E o \in HandleEthernetPacket(State, writers, now, portmap, v6, ep) :
               Apply(o, <<Rec(InterfaceOf(ep.src), ep)>>)
          /\ UNCHANGED <<natStyle, writers, registered, logs>>
  /\ UNCHANGED <<now, cfgVars, agentVars, orderVars, net2Vars, stackVars, writeErr, conns, proto, afterFunc, srvVars, lockVars>>

\* The read loop's look-up of the source MAC of frame ep in writers, as a
\* step of its own: on a miss the loop goes on to register a writer.
ReadFrameLoad(c, ep) ==
  /\ ~crashed
  /\ conns[c] = "read"
  /\ afterFunc[c] # "ran"
  /\ Has(nodeByMAC, ep.src)
  /\ ~Has(writers, ep.src)
  /\ conns' = [conns EXCEPT ![c] = "store"]
  /\ regMAC' = [regMAC EXCEPT ![c] = ep.src]
  /\ inp' = Input("load", ep)
  /\ out' = {}
  /\ calls' = <<>>
  /\ pcap' = NoRecords
  /\ UNCHANGED <<now, cfgVars, agentVars, held, hprog, streamVars, groVars, net2Vars, stackVars, faultVars, netVars, writers, proto,
                 registered, afterFunc, srvVars, lockVars, logs, nops, histVars>>

\* registerWriter(srcMAC, raddr, interfaceID, writePkt) and the defer of
\* the deregistration, after the look-up missed.
ReadFrameStore(c) ==
  /\ ~crashed
  /\ conns[c] = "store"
  /\ writers' = Put(writers, regMAC[c], c)
  /\ registered' = [registered EXCEPT ![c] = @ \cup {regMAC[c]}]
  /\ conns' = [conns EXCEPT ![c] = "read"]
  /\ logs' = logs \cup {"Registering writer"}
  /\ inp' = Input("register", NilFrame)
  /\ out' = {}
  /\ calls' = <<>>
  /\ pcap' = NoRecords
  /\ UNCHANGED <<now, cfgVars, agentVars, orderVars, net2Vars, stackVars, faultVars, netVars, proto, afterFunc,
                 srvVars, lockVars, nops, histVars>>

\* The read loop dispatches frame ep, whose source MAC has a writer.
ReadFrameDispatch(c, ep) == Has(writers, ep.src) /\ ReadFrame(c, ep)

\* The second Network's NAT state: its LAN frames never touch it.
Net2State == NetState(NewNATTable("easy"), EmptyMap, EmptyMap, EmptyMap)

\* The read loop's iteration on a frame of Node 3 in which writeEth looks
\* in the first Network's writers.
ReadFrameNet2OtherWriters(ep) ==
  /\ ~crashed
  /\ nops < budget
  /\ ep.src = Node3MAC
  /\ inp' = Input(IF ~Has(writers2, ep.src) THEN "register" ELSE "frame", ep)
  /\ IF ~Has(writers2, ep.src)
     THEN /\ writers2' = Put(writers2, ep.src, "c3")
          /\ logs' = logs \cup {"Registering writer"}
          /\ out' = {}
          /\ pcap' = NoRecords
     ELSE /\ \E o \in HandleEthernetPacket(Net2State, writers, now, portmap, v6, ep) :
               /\ out' = o.out
               /\ pcap' = [recs |-> <<Rec("node3", ep)>>,
                           writes |-> {Rec("node3", wr.frame) : wr \in o.out}]
          /\ UNCHANGED <<writers2, logs>>
  /\ calls' = <<>>
  /\ nops' = nops + 1
  /\ UNCHANGED <<now, cfgVars, agentVars, orderVars, stackVars, faultVars, netVars, connVars, srvVars, lockVars, histVars>>

\* One iteration of the read loop on a frame ep of Node 3, read from its
\* connection c3: srcNode.net is the second Network, whose writers take
\* the registration and whose HandleEthernetPacket gets the frame.
ReadFrameNet2(ep) ==
  /\ ~crashed
  /\ nops < budget
  /\ ep.src = Node3MAC
  /\ inp' = Input(IF ~Has(writers2, ep.src) THEN "register" ELSE "frame", ep)
  /\ IF ~Has(writers2, ep.src)
     THEN /\ writers2' = Put(writers2, ep.src, "c3")
          /\ logs' = logs \cup {"Registering writer"}
          /\ out' = {}
          /\ pcap' = NoRecords
     ELSE /\ \E o \in HandleEthernetPacket(Net2State, writers2, now, portmap, v6, ep) :
               /\ out' = o.out
               /\ pcap' = [recs |-> <<Rec("node3", ep)>>,
                           writes |-> {Rec("node3", wr.frame) : wr \in o.out}]
          /\ UNCHANGED <<writers2, logs>>
  /\ calls' = <<>>
  /\ nops' = nops + 1
  /\ UNCHANGED <<now, cfgVars, agentVars, orderVars, stackVars, faultVars, netVars, connVars, srvVars, lockVars, histVars>>

\* ServeUnixConn returns without its deferred deregistrations.
ReturnKeepsWriters(c) ==
  /\ conns' = [conns EXCEPT ![c] = "returned"]
  /\ writers' = writers
  /\ registered' = [registered EXCEPT ![c] = {}]
  /\ wg' = wg - 1
  /\ UNCHANGED logs

\* ServeUnixConn returns: the deferred registerWriter(mac, nil, 0, nil)
\* calls and s.wg.Done() run.
Return(c) ==
  /\ conns' = [conns EXCEPT ![c] = "returned"]
  /\ writers' = [m \in DOMAIN writers \ registered[c] |-> writers[m]]
  /\ registered' = [registered EXCEPT ![c] = {}]
  /\ wg' = wg - 1
  /\ UNCHANGED logs

\* A read from c fails: the stream loop returns, the datagram loop logs
\* the error and continues.
ReadFailed(c) ==
  /\ ~crashed
  /\ conns[c] = "read"
  /\ IF proto[c] = "QEMU"
     THEN Return(c)
     ELSE /\ logs' = logs \cup {"ReadFromUnix"}
          /\ conns' = [conns EXCEPT ![c] = "continue"]
          /\ UNCHANGED <<writers, registered, wg>>
  /\ Quiet
  /\ UNCHANGED <<now, cfgVars, agentVars, orderVars, net2Vars, stackVars, faultVars, netVars, proto, afterFunc, shuttingDown, shutdownCtx,
                 pcapWriter, closePc, lockVars, nops, histVars>>

\* The datagram loop's continue: back to the read.
Continue(c) ==
  /\ ~crashed
  /\ conns[c] = "continue"
  /\ conns' = [conns EXCEPT ![c] = "read"]
  /\ Quiet
  /\ UNCHANGED <<now, cfgVars, agentVars, orderVars, net2Vars, stackVars, faultVars, netVars, writers, proto, registered, afterFunc, srvVars,
                 lockVars, logs, nops, histVars>>

\* The read fails because the connection's deadline has passed.
ReadTimeout(c) == afterFunc[c] = "ran" /\ ReadFailed(c)

\* The read fails because the peer has gone away.
ReadEOF(c) == afterFunc[c] # "ran" /\ ReadFailed(c)

\* Close: shutdown := s.shuttingDown.Swap(true)
CloseSwap ==
  /\ ~crashed
  /\ closePc = "idle"
  /\ shuttingDown' = TRUE
  /\ closePc' = IF shuttingDown THEN "wait" ELSE "cancel"
  /\ Quiet
  /\ UNCHANGED <<now, cfgVars, agentVars, orderVars, net2Vars, stackVars, faultVars, netVars, connVars, shutdownCtx, pcapWriter, wg,
                 lockVars, logs, nops, histVars>>

\* Close: s.shutdownCancel(); s.pcapWriter.Close()
CloseCancel ==
  /\ ~crashed
  /\ closePc = "cancel"
  /\ shutdownCtx' = TRUE
  /\ afterFunc' = [c \in Conns |-> IF afterFunc[c] = "armed" THEN "running" ELSE afterFunc[c]]
  /\ pcapWriter' = "closed"
  /\ closePc' = "wait"
  /\ Quiet
  /\ UNCHANGED <<now, cfgVars, agentVars, orderVars, net2Vars, stackVars, faultVars, netVars, writers, conns, proto, registered,
                 shuttingDown, wg, lockVars, logs, nops, histVars>>

\* Close: s.wg.Wait() returns when the counter is zero.
CloseWait ==
  /\ ~crashed
  /\ closePc = "wait"
  /\ wg = 0
  /\ closePc' = "returned"
  /\ Quiet
  /\ UNCHANGED <<now, cfgVars, agentVars, orderVars, net2Vars, stackVars, faultVars, netVars, connVars, shuttingDown, shutdownCtx, pcapWriter,
                 wg, lockVars, logs, nops, histVars>>

(***************************************************************************)
(* The stack reader: initStack starts one goroutine per Network that       *)
(* reads the packets the netstack sends out of its link endpoint and       *)
(* hands them to the Node they are for, until the shutdown context is      *)
(* done.                                                                   *)
(***************************************************************************)

\* n.nodeForDestIP on Network n, as the MAC of the Node found: <<mac, ok>>.
nodeMACForDestIP(n, mac6, ip) ==
  IF n = "net1"
  THEN LET nd == nodeForDestIP(mac6, ip)
       IN  IF nd[2] THEN <<NodeMAC(nd[1]), TRUE>> ELSE <<<<>>, FALSE>>
  ELSE IF ip = Node3IP4 THEN <<Node3MAC, TRUE>> ELSE <<<<>>, FALSE>>

\* handleIPPacketFromGvisor: the frame written for the IP packet p of
\* Network n, whose writers are w, and the lines logged.
handleIPPacketFromGvisor(n, w, mac6, p) ==
  LET nd == nodeMACForDestIP(n, mac6, p.dst.addr)
      eth == Frame(nd[1], RouterMAC, etherType(p.dst.addr), p)
  IN  IF ~nd[2] THEN [out |-> {}, logs |-> {"no node for netstack dest IP"}]
      ELSE IF Has(w, nd[1]) THEN [out |-> {Write(w, nd[1], eth)}, logs |-> {}]
      ELSE [out |-> {}, logs |-> {"gvisor write: no writeFunc"}]

\* The netstack of Network n sends the IP packet p: it joins the queue of
\* the link endpoint, which holds a bounded number of packets.
StackEmit(n, p) ==
  /\ ~crashed
  /\ Len(linkQ[n]) < MaxQueued
  /\ linkQ' = [linkQ EXCEPT ![n] = Append(@, p)]
  /\ Quiet
  /\ UNCHANGED <<now, cfgVars, agentVars, orderVars, net2Vars, faultVars, netVars, connVars, srvVars, lockVars, logs,
                 nops, histVars, reader>>

\* The reader of Network n: ReadContext returns the packet at the head
\* of the queue, and handleIPPacketFromGvisor handles it.
ReaderReadPacket(n) ==
  /\ ~crashed
  /\ reader[n] = "read"
  /\ linkQ[n] # <<>>
  /\ linkQ' = [linkQ EXCEPT ![n] = Tail(@)]
  /\ inp' = Input("netstack", IPFrame(Head(linkQ[n])))
  /\ calls' = <<>>
  /\ IF n = "net1"
     THEN LET o == handleIPPacketFromGvisor(n, writers, macOfIPv6, Head(linkQ[n]))
          IN  /\ logs' = logs \cup o.logs
              /\ Emit(<<>>, <<>>, o.out, FALSE)
     ELSE LET o == handleIPPacketFromGvisor(n, writers2, EmptyMap, Head(linkQ[n]))
          IN  /\ logs' = logs \cup o.logs
              /\ out' = o.out
              /\ pcap' = [recs |-> <<>>, writes |-> {Rec("node3", wr.frame) : wr \in o.out}]
              /\ UNCHANGED <<crashed, writeFailed>>
  /\ UNCHANGED <<now, cfgVars, agentVars, orderVars, net2Vars, writeErr, netVars, connVars, srvVars, lockVars, nops,
                 histVars, reader>>

\* The reader that goes back to its read whenever the read returns no
\* packet.
ReaderReadNilContinues(n) ==
  /\ ~crashed
  /\ reader[n] = "read"
  /\ shutdownCtx
  /\ inp' = Input("netstack-nil", NilFrame)
  /\ out' = {}
  /\ calls' = <<>>
  /\ pcap' = NoRecords
  /\ UNCHANGED <<now, cfgVars, agentVars, orderVars, net2Vars, faultVars, netVars, connVars, srvVars, lockVars, logs,
                 nops, histVars, linkQ, reader>>

\* The reader of Network n: ReadContext returns nil, which it does once
\* the shutdown context is done, whether or not packets are queued; the
\* reader returns if shutdownCtx.Err() is set and reads again if not.
ReaderReadNil(n) ==
  /\ ~crashed
  /\ reader[n] = "read"
  /\ shutdownCtx
  /\ inp' = Input("netstack-nil", NilFrame)
  /\ out' = {}
  /\ calls' = <<>>
  /\ pcap' = NoRecords
  /\ reader' = [reader EXCEPT ![n] = IF shutdownCtx THEN "exited" ELSE @]
  /\ UNCHANGED <<now, cfgVars, agentVars, orderVars, net2Vars, faultVars, netVars, connVars, srvVars, lockVars, logs,
                 nops, histVars, linkQ>>

(***************************************************************************)
(* The NAT operations step by step, as concurrent callers run them:        *)
(* natMu.Lock(), the reads of natTable, portMap and portMapFlow, the       *)
(* writes and the return value, and the deferred natMu.Unlock().           *)
(***************************************************************************)
NATOp(op, a, b, sec, nat) == [op |-> op, a |-> a, b |-> b, sec |-> sec, nat |-> nat]
NATResult(st, res) == [st |-> st, res |-> res]

\* doNATOut and doNATIn return before natMu.Lock() on an IPv6 address.
ReturnsUnlocked(o) ==
  \/ o.op = "natOut" /\ Is6(o.a.addr)
  \/ o.op = "natIn" /\ Is6(o.b.addr)

\* The body of operation o, from natMu.Lock() to the return, run on the
\* NAT state st the caller read.
LockedBody(o, st, enabled, t) ==
  CASE o.op = "natOut" ->
         {NATResult(NetState(r.natTable, r.portMap, r.portMapFlow, st.macOfIPv6), r.res) :
            r \in doNATOut(st.natTable, st.portMap, st.portMapFlow, o.a, o.b)}
    [] o.op = "natIn" ->
         {NATResult(NetState(r.natTable, r.portMap, r.portMapFlow, st.macOfIPv6), r.res) :
            r \in doNATIn(st.natTable, st.portMap, st.portMapFlow, o.a, o.b, t)}
    [] o.op = "portMap" ->
         {NATResult([st EXCEPT !.portMap = r.portMap],
                    IF r.ok THEN AP(wanIP4, r.gotPort) ELSE NoAP) :
            r \in doPortMap(enabled, st.natTable, st.portMap, o.a.addr, o.a.port,
                            o.b.port, o.sec, t)}
    [] OTHER -> {NATResult([st EXCEPT !.natTable = NewNATTable(o.nat)], NoAP)}

\* A Lock that does not wait for the holder.
natMuLockNoWait(mu) == TRUE

\* sync.Mutex.Lock: whether a caller may take the mutex mu.
natMuLock(mu) == mu = NoHolder

\* A goroutine calls doNATOut, doNATIn, doPortMap or setNATTable.
NATCall(w, o) ==
  /\ ~crashed
  /\ wpc[w] = "idle"
  /\ nops < budget
  /\ wop' = [wop EXCEPT ![w] = o]
  /\ nops' = nops + 1
  /\ IF ReturnsUnlocked(o)
     THEN /\ wres' = [wres EXCEPT ![w] = IF o.op = "natOut" THEN o.a ELSE o.b]
          /\ UNCHANGED wpc
     ELSE /\ wpc' = [wpc EXCEPT ![w] = "lock"]
          /\ UNCHANGED wres
  /\ UNCHANGED <<now, cfgVars, agentVars, orderVars, net2Vars, stackVars, faultVars, netVars, connVars, srvVars, natMu, wsnap, obsVars, histVars>>

\* n.natMu.Lock()
NATLock(w) ==
  /\ ~crashed
  /\ wpc[w] = "lock"
  /\ natMuLock(natMu)
  /\ natMu' = w
  /\ wpc' = [wpc EXCEPT ![w] = "read"]
  /\ UNCHANGED <<now, cfgVars, agentVars, orderVars, net2Vars, stackVars, faultVars, netVars, connVars, srvVars, wop, wsnap, wres, obsVars,
                 nops, histVars>>

\* The operation reads natTable, portMap and portMapFlow.
NATRead(w) ==
  /\ ~crashed
  /\ wpc[w] = "read"
  /\ wsnap' = [wsnap EXCEPT ![w] = State]
  /\ wpc' = [wpc EXCEPT ![w] = "write"]
  /\ UNCHANGED <<now, cfgVars, agentVars, orderVars, net2Vars, stackVars, faultVars, netVars, connVars, srvVars, natMu, wop, wres, obsVars,
                 nops, histVars>>

\* The operation writes what it computed from what it read, and returns.
NATWrite(w) ==
  /\ ~crashed
  /\ wpc[w] = "write"
  /\ \E r \in LockedBody(wop[w], wsnap[w], portmap, now) :
       /\ natTable' = r.st.natTable
       /\ portMap' = r.st.portMap
       /\ portMapFlow' = r.st.portMapFlow
       /\ wres' = [wres EXCEPT ![w] = r.res]
  /\ wpc' = [wpc EXCEPT ![w] = "unlock"]
  /\ UNCHANGED <<now, cfgVars, agentVars, orderVars, net2Vars, stackVars, faultVars, natStyle, macOfIPv6, connVars, srvVars, natMu, wop, wsnap,
                 obsVars, nops, histVars>>

\* The deferred n.natMu.Unlock()
NATUnlock(w) ==
  /\ ~crashed
  /\ wpc[w] = "unlock"
  /\ natMu' = NoHolder
  /\ wpc' = [wpc EXCEPT ![w] = "idle"]
  /\ UNCHANGED <<now, cfgVars, agentVars, orderVars, net2Vars, stackVars, faultVars, netVars, connVars, srvVars, wop, wsnap, wres, obsVars,
                 nops, histVars>>

\* A direct call of network.writeEth(res).
WriteEth(res) ==
  /\ ~crashed
  /\ nops < budget
  /\ Emit(<<>>, <<>>, writeEth(writers, res), FALSE)
  /\ calls' = <<>>
  /\ inp' = Input("writeEth", res)
  /\ nops' = nops + 1
  /\ UNCHANGED <<now, cfgVars, agentVars, orderVars, net2Vars, stackVars, writeErr, netVars, connVars, srvVars, lockVars, logs, histVars>>

(***************************************************************************)
(* Lock order.  What a handler does to the Server's mutexes, in program    *)
(* order: each Network's natMu and macMu, the Server's mu, and the         *)
(* writeMu of a client connection.  A handler is the sequence of its       *)
(* Lock and Unlock calls and of the strategy's callbacks, which need the   *)
(* caller to hold natMu.                                                   *)
(***************************************************************************)
LockStep(m) == [op |-> "lock", mu |-> m]
UnlockStep(m) == [op |-> "unlock", mu |-> m]
HeldStep(m) == [op |-> "held", mu |-> m]
Locked(m, body) == <<LockStep(m)>> \o body \o <<UnlockStep(m)>>

\* An IsPublicPortUsed that takes natMu itself.
IsPublicPortUsedLocking(n) == Locked(natMuOf(n), <<>>)

\* network.IsPublicPortUsed: reads portMap; natMu must be held by the
\* caller.
IsPublicPortUsedSteps(n) == <<HeldStep(natMuOf(n))>>

\* doNATOut: returns before the lock for an IPv6 source; the strategy's
\* PickOutgoingSrc calls back into IsPublicPortUsed.
doNATOutSteps(n, src) ==
  IF Is6(src) THEN <<>> ELSE Locked(natMuOf(n), IsPublicPortUsedSteps(n))

\* doNATIn: returns before the lock for an IPv6 destination.
doNATInSteps(n, dst) ==
  IF Is6(dst) THEN <<>> ELSE Locked(natMuOf(n), <<>>)

\* doPortMap, setNATTable.
doPortMapSteps(n) == Locked(natMuOf(n), <<>>)
setNATTableSteps(n) == Locked(natMuOf(n), <<>>)

\* The router learns the MAC of an IPv6 source.
learnSteps(n, src) ==
  IF Is6(src) THEN Locked(macMuOf(n), <<>>) ELSE <<>>

\* nodeForDestIP: nodesByIP holds IPv4 addresses only, so an IPv6 address
\* is looked up in macOfIPv6.
nodeForDestIPSteps(n, ip) ==
  IF Is6(ip) THEN Locked(macMuOf(n), <<>>) ELSE <<>>

\* writePkt, the writer registered for a Node's connection.
writePktSteps(n) == Locked(writeMuOf(n), <<>>)

\* WriteUDPPacketNoNAT: nodeForDestIP, then writeEth.
WriteUDPPacketNoNATSteps(n, dst) == nodeForDestIPSteps(n, dst) \o writePktSteps(n)

\* HandleUDPPacket of Network n for a datagram to dst.
HandleUDPPacketSteps(n, dst) == doNATInSteps(n, dst) \o WriteUDPPacketNoNATSteps(n, dst)

\* HandleEthernetPacketForRouter of Network n forwards a datagram from src
\* to dst, which Network m owns.
ForwardSteps(n, m, src, dst) ==
  learnSteps(n, src) \o doNATOutSteps(n, src) \o learnSteps(n, src) \o HandleUDPPacketSteps(m, dst)

\* HandleEthernetPacketForRouter of Network n answers a NAT-PMP map
\* request from src.
NATPMPSteps(n, src) ==
  learnSteps(n, src) \o doPortMapSteps(n) \o WriteUDPPacketNoNATSteps(n, src)

\* addIdleAgentConn; takeAgentConn's first round: takeAgentConnOne, then
\* the registration of the waiter.
addIdleAgentConnSteps == Locked(ServerMu, <<>>)
takeAgentConnSteps == Locked(ServerMu, <<>>) \o Locked(ServerMu, <<>>)

\* The handlers that run concurrently: each Network forwards IPv4 and
\* IPv6 datagrams to the other and to itself, answers NAT-PMP requests and
\* has its NAT type set, and agent connections are pooled and taken.
Other(n) == IF n = "net1" THEN "net2" ELSE "net1"
Handlers ==
  {ForwardSteps(n, m, f[1], f[2]) :
     n \in Networks, m \in Networks, f \in {<<Node1IP4, wanIP4>>, <<Node1IP6, Peer6>>}}
  \cup {NATPMPSteps(n, src) : n \in Networks, src \in {Node1IP4, Node1IP6}}
  \cup {setNATTableSteps(n) : n \in Networks}
  \cup {addIdleAgentConnSteps, takeAgentConnSteps}

\* What the steps of a handler on the mutexes leave alone.
handlerVars ==
  <<now, cfgVars, agentVars, net2Vars, stackVars, netVars, connVars, srvVars, lockVars, obsVars, nops,
    histVars, faultVars>>

\* Worker w starts to run handler h.
HandlerStart(w, h) ==
  /\ ~crashed
  /\ hprog[w] = <<>>
  /\ h # <<>>
  /\ hprog' = [hprog EXCEPT ![w] = h]
  /\ UNCHANGED <<handlerVars, held, regMAC, streamVars, groVars>>

\* sync.Mutex.Lock: w goes on once nobody holds the mutex.
HandlerLock(w) ==
  /\ ~crashed
  /\ hprog[w] # <<>>
  /\ Head(hprog[w]).op = "lock"
  /\ held[Head(hprog[w]).mu] = NoHolder
  /\ held' = [held EXCEPT ![Head(hprog[w]).mu] = w]
  /\ hprog' = [hprog EXCEPT ![w] = Tail(@)]
  /\ UNCHANGED <<handlerVars, regMAC, streamVars, groVars>>

\* sync.Mutex.Unlock
HandlerUnlock(w) ==
  /\ ~crashed
  /\ hprog[w] # <<>>
  /\ Head(hprog[w]).op = "unlock"
  /\ held' = [held EXCEPT ![Head(hprog[w]).mu] = NoHolder]
  /\ hprog' = [hprog EXCEPT ![w] = Tail(@)]
  /\ UNCHANGED <<handlerVars, regMAC, streamVars, groVars>>

\* A strategy callback runs.
HandlerCallback(w) ==
  /\ ~crashed
  /\ hprog[w] # <<>>
  /\ Head(hprog[w]).op = "held"
  /\ hprog' = [hprog EXCEPT ![w] = Tail(@)]
  /\ UNCHANGED <<handlerVars, held, regMAC, streamVars, groVars>>

(***************************************************************************)
(* Inputs: the frames the clients send, the datagrams that arrive from     *)
(* the WAN and the NAT calls concurrent callers make.                      *)
(***************************************************************************)
InternalPorts == {60736, 60737}
WantExtPorts == {0, 49152}
Lifetimes == {0, 2}

MapRequest(internalPort, wantExtPort, sec) ==
  <<0, 1, 0, 0>> \o PutBE16(internalPort) \o PutBE16(wantExtPort) \o PutBE32(sec)

NATPMPFrame(mac, ip, internalPort, wantExtPort, sec) ==
  Frame(RouterMAC, mac, "IPv4",
        UDPPacket(AP(ip, 5350), AP(lanIP4, pcpPort), MapRequest(internalPort, wantExtPort, sec)))

ForwardFrame(mac, src, peer) == Frame(RouterMAC, mac, "IPv4", UDPPacket(src, peer, <<1>>))

NATPMPFrames ==
  {NATPMPFrame(Node1MAC, Node1IP4, i, e, s) :
     i \in InternalPorts, e \in WantExtPorts, s \in Lifetimes}
  \cup
  {NATPMPFrame(Node2MAC, Node2IP4, 60736, 49152, s) : s \in Lifetimes}
  \cup
  {Frame(RouterMAC, Node1MAC, "IPv4",
         UDPPacket(AP(Node1IP4, 5350), AP(lanIP4, pcpPort), <<0, 0>>))}

ForwardFrames ==
  {ForwardFrame(Node1MAC, AP(Node1IP4, i), peer) : i \in InternalPorts, peer \in Peers}
  \cup
  {ForwardFrame(Node2MAC, AP(Node2IP4, 60736), peer) : peer \in Peers}

NATFrames == NATPMPFrames \cup ForwardFrames

WANPackets == {UDPPacket(src, AP(wanIP4, port), <<1>>) : src \in Peers, port \in {32768, 49152}}

\* One Node, one LAN target, and the peers that talk to it.
HairpinFrames ==
  {NATPMPFrame(Node1MAC, Node1IP4, 60736, e, s) : e \in WantExtPorts, s \in Lifetimes}
  \cup
  {ForwardFrame(Node1MAC, AP(Node1IP4, 60736), peer) : peer \in Peers}

\* Link-layer traffic: ARP requests, neighbor and router solicitations,
\* unicast and broadcast data, and a frame from a MAC no Node has.
ARPRequest(mac, ip, target) ==
  Frame(Broadcast, mac, "ARP", Pkt("arp-request", AP(ip, 0), NoAP, target, <<>>))

NeighborSolicitation(dst, mac, ip, target) ==
  Frame(dst, mac, "IPv6", Pkt("ns", AP(ip, 0), AP(target, 0), target, <<>>))

LinkFrames ==
  {ARPRequest(Node1MAC, Node1IP4, t) : t \in {lanIP4, Node2IP4, Node1IP4, UnknownIP4}}
  \cup
  {NeighborSolicitation(d, Node1MAC, Node1IP6, t) :
     d \in {SolicitedNodeMAC, RouterMAC, Node2MAC, Broadcast},
     t \in {RouterLinkLocal, UnknownIP6}}
  \cup
  {Frame(macAllRouters, Node1MAC, "IPv6",
         Pkt("rs", AP(Node1IP6, 0), AP(RouterLinkLocal, 0), "", <<>>)),
   Frame(Node1MAC, Node2MAC, "IPv4", UDPPacket(AP(Node2IP4, 7), AP(Node1IP4, 7), <<1>>)),
   Frame(Broadcast, Node2MAC, "IPv4", UDPPacket(AP(Node2IP4, 7), AP(UnknownIP4, 7), <<1>>)),
   Frame(RouterMAC, StrangerMAC, "IPv4", UDPPacket(AP(UnknownIP4, 7), AP(lanIP4, 7), <<1>>))}
  \cup
  \* An external-address request and an IPv6 datagram for a peer, each sent
  \* to the router's MAC, to the broadcast MAC and to an IPv6-multicast MAC.
  {Frame(d, Node1MAC, "IPv4", UDPPacket(AP(Node1IP4, 5350), AP(lanIP4, pcpPort), <<0, 0>>)) :
     d \in {RouterMAC, Broadcast, SolicitedNodeMAC}}
  \cup
  {Frame(d, Node1MAC, "IPv6", UDPPacket(AP(Node1IP6, 7), AP(Peer6, 7), <<1>>)) :
     d \in {RouterMAC, Broadcast, SolicitedNodeMAC}}
  \cup
  \* Frames from a MAC no Node has: a port-map request in Node 1's name, a
  \* broadcast datagram, a datagram for Node 2 and an IPv6 datagram.
  {NATPMPFrame(StrangerMAC, Node1IP4, 60736, 49152, 2),
   Frame(Broadcast, StrangerMAC, "IPv4", UDPPacket(AP(UnknownIP4, 7), AP(Node2IP4, 7), <<1>>)),
   Frame(Node2MAC, StrangerMAC, "IPv4", UDPPacket(AP(UnknownIP4, 7), AP(Node2IP4, 7), <<1>>)),
   Frame(RouterMAC, StrangerMAC, "IPv6", UDPPacket(AP(UnknownIP6, 7), AP(Peer6, 7), <<1>>))}

\* Unicast frames between the Networks: Node 3's to the Nodes of the first
\* Network and to itself, Node 1's to Node 3.
Net2Frames ==
  {Frame(d, Node3MAC, "IPv4", UDPPacket(AP(Node3IP4, 7), AP(Node1IP4, 7), <<1>>)) :
     d \in {Node1MAC, Node2MAC, Node3MAC}}

CrossFrames ==
  {Frame(Node3MAC, Node1MAC, "IPv4", UDPPacket(AP(Node1IP4, 7), AP(Node3IP4, 7), <<1>>))}

\* DNS messages of one or two questions about every name, a question of
\* another class, and messages that are no query.
DNSQuestionLists ==
  {<<n, DNSTypeA, DNSClassIN>> : n \in 1..Len(DNSNames)}
  \cup {<<n, DNSTypeA, DNSClassIN, m, DNSTypeA, DNSClassIN>> :
          n \in 1..Len(DNSNames), m \in 1..Len(DNSNames)}
  \cup {<<1, DNSTypeA, 3>>}

DNSFrame(dst, msg) ==
  Frame(dst, Node1MAC, "IPv4", UDPPacket(AP(Node1IP4, 60736), AP(fakeDNS4, 53), msg))

DNSFrames ==
  {DNSFrame(d, DNSMessage(0, DNSOpCodeQuery, qs)) :
     d \in {RouterMAC, Broadcast}, qs \in DNSQuestionLists}
  \cup
  {DNSFrame(RouterMAC, DNSMessage(1, DNSOpCodeQuery, <<2, DNSTypeA, DNSClassIN>>)),
   DNSFrame(RouterMAC, DNSMessage(0, 2, <<2, DNSTypeA, DNSClassIN>>)),
   DNSFrame(RouterMAC, DNSMessage(0, DNSOpCodeQuery, <<>>))}

\* DHCP discover and request, a message of an unknown type, and UDP
\* datagrams from port 68 to port 67 that carry no DHCP message.
DHCPFrame(payload) ==
  Frame(Broadcast, Node1MAC, "IPv4",
        UDPPacket(AP(IPv4Unspecified, 68), AP(IPv4Broadcast, 67), payload))

DHCPFrames ==
  {DHCPFrame(<<DHCPOpRequest, 7, t>>) : t \in {DHCPMsgTypeDiscover, DHCPMsgTypeRequest, 8}}
  \cup {DHCPFrame(<<DHCPOpRequest>>), DHCPFrame(<<>>)}
  \cup {Frame(RouterMAC, Node1MAC, "IPv4",
               UDPPacket(AP(Node1IP4, 5353), AP(lanIP4, 5353), <<1>>)),
        Frame(RouterMAC, Node1MAC, "IPv4",
               UDPPacket(AP(Node1IP4, 514), AP(fakeSyslog4, 514), <<1>>))}

\* Length prefixes of the stream framing (4 bytes, big endian), each
\* followed by that many bytes that are no Ethernet frame: 0, 13, 16380,
\* 16381, 65536, 2^32 - 4 and 2^32 - 1.
HeaderLengths ==
  {<<0, 0, 0, 0>>, <<0, 0, 0, 13>>, <<0, 0, 63, 252>>, <<0, 0, 63, 253>>, <<0, 1, 0, 0>>,
   <<255, 255, 255, 252>>, <<255, 255, 255, 255>>}

\* The first segment of a TCP connection from Node 1 to every virtual
\* address, on the ports 80, 443, 123, 8008 and 22.
TCPFrames ==
  {Frame(RouterMAC, Node1MAC, "IPv4", Pkt("tcp", AP(Node1IP4, 60736), AP(a, port), "", <<>>)) :
     a \in {fakeControl4, fakeDERP1v4, fakeDERP2v4, fakeLogCatcher4, fakeTestAgent4,
            fakeProxyControlplane4},
     port \in {80, 443, 123, 8008, 22}}

\* STUN binding requests from Node 1 over IPv4 and over IPv6, from an
\* ephemeral source port and from port 3478, a datagram for port 3478 that
\* is no binding request, and other IPv6 datagrams.
STUNFrames ==
  {Frame(RouterMAC, Node1MAC, "IPv4",
         UDPPacket(AP(Node1IP4, sp), AP("52.52.0.9", stunPort), pl)) :
     sp \in {60736, stunPort}, pl \in {BindingRequest(7), <<1>>}}
  \cup
  {Frame(RouterMAC, Node1MAC, "IPv6", UDPPacket(AP(Node1IP6, sp), AP(Peer6, dp), pl)) :
     sp \in {60736, stunPort}, dp \in {stunPort, 4000}, pl \in {BindingRequest(7), <<1>>}}

\* Datagrams for port 5351 from Node 1 to the router's LAN address, the
\* unspecified address, a peer, the syslog address, the Network's own WAN
\* address and, over IPv6, the router's link-local address and a peer: a
\* map request, an external-address request and a PCP (version 2) request.
PMPPayloads == {MapRequest(60736, 49152, 2), <<0, 0>>, <<2, 1>>}

PMPFrames ==
  {Frame(RouterMAC, Node1MAC, "IPv4", UDPPacket(AP(Node1IP4, 5350), AP(d, pcpPort), pl)) :
     d \in {lanIP4, IPv4Unspecified, "52.52.0.9", fakeSyslog4, wanIP4}, pl \in PMPPayloads}
  \cup
  {Frame(RouterMAC, Node1MAC, "IPv6", UDPPacket(AP(Node1IP6, 5350), AP(d, pcpPort), pl)) :
     d \in {RouterLinkLocal, Peer6}, pl \in PMPPayloads}

\* IPv6 traffic through the router that is intercepted (TCP port 123),
\* dropped (TCP port 22) or forwarded (UDP), sent by Node 1 and by Node 2
\* from the same IPv6 source address.
V6Frames ==
  {Frame(RouterMAC, m, "IPv6", Pkt("tcp", AP(Node1IP6, 60736), AP(Peer6, port), "", <<>>)) :
     m \in {Node1MAC, Node2MAC}, port \in {123, 22}}
  \cup
  {Frame(RouterMAC, Node2MAC, "IPv6", UDPPacket(AP(Node1IP6, 60736), AP(Peer6, 4000), <<1>>))}

ServiceFrames ==
  DNSFrames \cup DHCPFrames \cup TCPFrames \cup STUNFrames \cup PMPFrames \cup V6Frames

\* Datagrams from the WAN for the Network's IPv4 address and for Node 1's
\* IPv6 address.
ServicePackets ==
  WANPackets \cup {UDPPacket(AP(Peer6, 4000), AP(Node1IP6, port), <<1>>) : port \in {60736, 7}}

\* Frames whose handling is recorded and written: Node 1's ARP request,
\* Node 2's unicast and broadcast data, port-map request and outbound
\* datagram, and a frame from a MAC no Node has.
AuditFrames ==
  {ARPRequest(Node1MAC, Node1IP4, lanIP4),
   Frame(Node1MAC, Node2MAC, "IPv4", UDPPacket(AP(Node2IP4, 7), AP(Node1IP4, 7), <<1>>)),
   Frame(Broadcast, Node2MAC, "IPv4", UDPPacket(AP(Node2IP4, 7), AP(UnknownIP4, 7), <<1>>)),
   Frame(RouterMAC, StrangerMAC, "IPv4", UDPPacket(AP(UnknownIP4, 7), AP(lanIP4, 7), <<1>>)),
   NATPMPFrame(Node2MAC, Node2IP4, 60736, 49152, 2),
   ForwardFrame(Node2MAC, AP(Node2IP4, 60736), AP("52.52.0.9", 4000))}

AuditPackets == {UDPPacket(AP("52.52.0.9", 4000), AP(wanIP4, 49152), <<1>>)}

\* Frames handed to writeEth directly.
EthFrames ==
  {NilFrame} \cup
  {Frame(d, m, "IPv4", UDPPacket(AP(Node1IP4, 7), AP(Node2IP4, 7), <<1>>)) :
     d \in {Broadcast, Node1MAC, Node2MAC}, m \in {Broadcast, Node1MAC}}

ConnOf(ep) == IF ep.src = Node2MAC THEN "c2" ELSE "c1"

NATOps ==
  {NATOp("natOut", AP(Node1IP4, 60736), p, 0, "") : p \in Peers}
  \cup {NATOp("natOut", AP(Node1IP6, 60736), p, 0, "") : p \in Peers}
  \cup {NATOp("natIn", p, AP(wanIP4, 49152), 0, "") : p \in Peers}
  \cup {NATOp("portMap", AP(Node1IP4, 60736), AP(wanIP4, e), s, "") :
          e \in WantExtPorts, s \in Lifetimes}
  \cup {NATOp("setNATTable", NoAP, NoAP, 0, "hard")}

(***************************************************************************)
(* Specifications.                                                         *)
(***************************************************************************)
\* The NAT engine: both Nodes' NAT-PMP requests and outbound datagrams,
\* inbound datagrams from the WAN, strategy swaps, the clock.
Next ==
  \/ Tick
  \/ \E t \in RequestedNATTypes : InitNAT(t, TRUE)
  \/ \E p \in WANPackets : WANPacket(p)
  \/ \E ep \in NATFrames : ReadFrame(ConnOf(ep), ep)

Spec == Init /\ [][Next]_vars

\* Longer behaviours of one LAN target.
HairpinInit ==
  /\ Connected
  /\ portmap = TRUE
  /\ v6 = TRUE
  /\ budget = MaxHairpinOps

HairpinNext ==
  \/ Tick
  \/ \E t \in RequestedNATTypes : InitNAT(t, TRUE)
  \/ \E p \in WANPackets : WANPacket(p)
  \/ \E ep \in HairpinFrames : ReadFrame(ConnOf(ep), ep)

HairpinSpec == HairpinInit /\ [][HairpinNext]_vars

\* Strategy swaps, with constructors that succeed or fail, between one
\* Node's port-map request, its outbound datagrams and datagrams from the
\* WAN.
SwapInit ==
  /\ Connected
  /\ portmap = TRUE
  /\ v6 = TRUE
  /\ budget = MaxOps

SwapFrames ==
  {NATPMPFrame(Node1MAC, Node1IP4, 60736, 49152, 2)}
  \cup
  {ForwardFrame(Node1MAC, AP(Node1IP4, 60736), peer) : peer \in Peers}

SwapNext ==
  \/ \E t \in RequestedNATTypes, ctorOK \in BOOLEAN : InitNAT(t, ctorOK)
  \/ \E p \in WANPackets : WANPacket(p)
  \/ \E ep \in SwapFrames : ReadFrame(ConnOf(ep), ep)

SwapSpec == SwapInit /\ [][SwapNext]_vars

\* The in-process services of the router: DNS.
ServiceInit ==
  /\ Connected
  /\ portmap = TRUE
  /\ v6 = TRUE
  /\ budget = MaxServiceOps

ServiceNext ==
  \/ Tick
  \/ \E c \in Conns, hdr \in HeaderLengths : ReadRaw(c, hdr)
  \/ \E p \in ServicePackets : WANPacket(p)
  \/ \E ep \in ServiceFrames : ReadFrame(ConnOf(ep), ep)

ServiceSpec == ServiceInit /\ [][ServiceNext]_vars

\* The audit sink and the write path, with their failures.
AuditInit ==
  /\ Accepted
  /\ portmap = TRUE
  /\ v6 = TRUE
  /\ budget = MaxAuditOps

AuditNext ==
  \/ \E ep \in AuditFrames : ReadFrame(ConnOf(ep), ep)
  \/ \E p \in AuditPackets : WANPacket(p)
  \/ \E c \in Conns : ConnBreaks(c)
  \/ PcapFails

AuditSpec == AuditInit /\ [][AuditNext]_vars

\* The idle agent connections.  The Go scheduler runs every runnable
\* goroutine and the runtime fires every timer; when a Node opens an agent
\* connection and whether a context is cancelled is up to the environment.
AgentInit ==
  /\ Connected
  /\ portmap = TRUE
  /\ v6 = TRUE
  /\ budget = 0

AgentNext ==
  \/ \E ac \in AgentConnsOffered : addIdleAgentConn(ac)
  \/ \E t \in Takers : takeAgentConn(t)
  \/ \E t \in Takers : takeAgentConnOne(t)
  \/ \E t \in Takers : RegisterWaiter(t)
  \/ \E t \in Takers : TimeAfter(t)
  \/ \E t \in Takers : CtxDone(t)
  \/ \E t \in CancellableTakers : CancelCtx(t)

AgentFairness ==
  \A t \in Takers :
    /\ WF_vars(takeAgentConnOne(t))
    /\ WF_vars(RegisterWaiter(t))
    /\ WF_vars(TimeAfter(t))

AgentSpec == AgentInit /\ [][AgentNext]_vars /\ AgentFairness

\* The link layer: clients connect, register and exchange frames.
LinkInit ==
  /\ Constructed
  /\ portmap = TRUE
  /\ v6 \in BOOLEAN
  /\ budget = MaxLinkOps

LinkNext ==
  \/ \E c \in Conns, pr \in Protocols : ServeUnixConn(c, pr)
  \/ \E c \in Conns : CheckShuttingDown(c)
  \/ \E c \in Conns : WgAdd(c)
  \/ \E c \in Conns : AfterFunc(c)
  \/ \E c \in Conns : ReadEOF(c)
  \/ \E c \in Conns : Continue(c)
  \/ \E ep \in LinkFrames \cup CrossFrames : ReadFrame(ConnOf(ep), ep)
  \/ \E ep \in Net2Frames : ReadFrameNet2(ep)
  \/ \E res \in EthFrames : WriteEth(res)

LinkSpec == LinkInit /\ [][LinkNext]_vars

\* Shutdown: ServeUnixConn calls race with one Close call.  The Go
\* scheduler runs every runnable goroutine eventually; whether a client
\* connects, sends a frame or hangs up is up to the client.
CloseInit ==
  /\ Constructed
  /\ portmap = TRUE
  /\ v6 = TRUE
  /\ budget = MaxCloseOps

CloseFrames ==
  {ARPRequest(Node1MAC, Node1IP4, lanIP4),
   Frame(Broadcast, Node2MAC, "ARP", Pkt("arp-request", AP(Node2IP4, 0), NoAP, lanIP4, <<>>))}

CloseNext ==
  \/ \E c \in Conns, pr \in Protocols : ServeUnixConn(c, pr)
  \/ \E c \in Conns : CheckShuttingDown(c)
  \/ \E c \in Conns : WgAdd(c)
  \/ \E c \in Conns : AfterFunc(c)
  \/ \E c \in Conns : SetDeadline(c)
  \/ \E c \in Conns : ReadTimeout(c)
  \/ \E c \in Conns : ReadEOF(c)
  \/ \E c \in Conns : Continue(c)
  \/ \E ep \in CloseFrames : ReadFrame(ConnOf(ep), ep)
  \/ CloseSwap
  \/ CloseCancel
  \/ CloseWait

CloseFairness ==
  /\ \A c \in Conns :
       /\ WF_vars(CheckShuttingDown(c))
       /\ WF_vars(WgAdd(c))
       /\ WF_vars(AfterFunc(c))
       /\ WF_vars(SetDeadline(c))
       /\ WF_vars(ReadTimeout(c))
       /\ WF_vars(Continue(c))
  /\ WF_vars(CloseCancel)
  /\ WF_vars(CloseWait)

CloseSpec == CloseInit /\ [][CloseNext]_vars /\ CloseFairness

\* The stack readers at shutdown: the netstacks of both Networks send
\* packets, the readers hand them on, the clients hang up and Close is
\* called.  Once the shutdown context is done a reader's ReadContext has
\* two ready cases, the queue and ctx.Done(), and Go's select picks
\* among ready cases at random, so ctx.Done() is picked eventually.
StackInit ==
  /\ Accepted
  /\ portmap = TRUE
  /\ v6 = TRUE
  /\ budget = MaxCloseOps

\* The packets the netstack of each Network sends: segments for a Node
\* with a writer, for an address no Node has, and for a Node without a
\* writer.
StackPackets(n) ==
  IF n = "net1"
  THEN {Pkt("tcp", AP(fakeControl4, 80), AP(a, 60736), "", <<>>) : a \in {Node2IP4, UnknownIP4}}
  ELSE {Pkt("tcp", AP(fakeControl4, 80), AP(Node3IP4, 60736), "", <<>>)}

StackNext ==
  \/ \E n \in Networks : \E p \in StackPackets(n) : StackEmit(n, p)
  \/ \E n \in Networks : ReaderReadPacket(n)
  \/ \E n \in Networks : ReaderReadNil(n)
  \/ \E c \in Conns : ReadEOF(c)
  \/ CloseSwap
  \/ CloseCancel
  \/ CloseWait

StackFairness == \A n \in Networks : WF_vars(ReaderReadNil(n))

StackSpec == StackInit /\ [][StackNext]_vars /\ StackFairness

\* Concurrent callers of the NAT operations.
LockInit ==
  /\ Connected
  /\ portmap \in BOOLEAN
  /\ v6 = TRUE
  /\ budget = MaxLockOps

LockNext ==
  \/ Tick
  \/ \E w \in Workers, o \in NATOps : NATCall(w, o)
  \/ \E w \in Workers : NATLock(w)
  \/ \E w \in Workers : NATRead(w)
  \/ \E w \in Workers : NATWrite(w)
  \/ \E w \in Workers : NATUnlock(w)

LockSpec == LockInit /\ [][LockNext]_vars

\* Packet handlers, NAT-PMP handlers, InitNAT and the agent pool's callers
\* run on concurrent goroutines.
OrderInit ==
  /\ Connected
  /\ portmap = TRUE
  /\ v6 = TRUE
  /\ budget = MaxLockOps

OrderNext ==
  \/ \E w \in Workers, h \in Handlers : HandlerStart(w, h)
  \/ \E w \in Workers : HandlerLock(w)
  \/ \E w \in Workers : HandlerUnlock(w)
  \/ \E w \in Workers : HandlerCallback(w)

OrderSpec == OrderInit /\ [][OrderNext]_vars

\* Two client connections send frames from the same source MACs while
\* either may hang up: the look-up in writers and the registration are
\* separate steps of each ServeUnixConn goroutine.
RegisterInit ==
  /\ Accepted
  /\ portmap = TRUE
  /\ v6 = TRUE
  /\ budget = MaxLinkOps

RegisterFrames ==
  {ARPRequest(mac, Node1IP4, lanIP4) : mac \in {Node1MAC, Node2MAC}}

RegisterNext ==
  \/ \E c \in Conns, ep \in RegisterFrames : ReadFrameLoad(c, ep)
  \/ \E c \in Conns : ReadFrameStore(c)
  \/ \E c \in Conns, ep \in RegisterFrames : ReadFrameDispatch(c, ep)
  \/ \E c \in Conns : ReadEOF(c)

RegisterSpec == RegisterInit /\ [][RegisterNext]_vars

(***************************************************************************)
(* writePkt of a ProtocolQEMU connection: concurrent callers write frames  *)
(* to one stream through the connection's bufio.Writer, under writeMu.     *)
(***************************************************************************)
\* The goroutines that call one connection's writePkt.
StreamWriters == {"h1", "h2"}
\* len(pkt) of the frames they write.
FrameLens == {1, 3, 9}
\* The frame of len bytes that w writes: no byte of it is a byte of a
\* header or of another writer's frame.
FrameOf(w, len) == [i \in 1..len |-> (IF w = "h1" THEN 10 ELSE 20) + i]
NilPkt == <<>>
StreamPkts(w) == {FrameOf(w, len) : len \in FrameLens} \cup {NilPkt}

\* binary.BigEndian.AppendUint32(bw.AvailableBuffer()[:0], uint32(len(pkt)))
StreamHdr(pkt) == PutBE32(Len(pkt))

\* uc.Write(bs): all of bs reaches the peer, or the write fails after none
\* or half of it.
ucWrite(bs) ==
  {[n |-> Len(bs), err |-> FALSE]} \cup {[n |-> k, err |-> TRUE] : k \in {0, Len(bs) \div 2}}

Stream(w, buf, err) == [wire |-> w, buf |-> buf, err |-> err]
Available(st) == WriterSize - Len(st.buf)

\* bufio.Writer.Flush: a sticky error returns at once; an error of the
\* write keeps the unwritten bytes and sticks.
bwFlush(st) ==
  IF st.err \/ st.buf = <<>> THEN {st}
  ELSE {Stream(st.wire \o SubSeq(st.buf, 1, o.n),
               IF o.err THEN SubSeq(st.buf, o.n + 1, Len(st.buf)) ELSE <<>>,
               o.err) : o \in ucWrite(st.buf)}

\* bufio.Writer.Write(p): while p does not fit, an empty buffer passes p to
\* the connection and a used one is filled and flushed; what is left is
\* copied into the buffer unless an error has stuck.
RECURSIVE bwWrite(_, _)
bwWrite(st, p) ==
  IF Len(p) > Available(st) /\ ~st.err
  THEN IF st.buf = <<>>
       THEN UNION {bwWrite(Stream(st.wire \o SubSeq(p, 1, o.n), <<>>, o.err),
                           SubSeq(p, o.n + 1, Len(p))) : o \in ucWrite(p)}
       ELSE LET n == Available(st)
            IN  UNION {bwWrite(f, SubSeq(p, n + 1, Len(p))) :
                         f \in bwFlush([st EXCEPT !.buf = @ \o SubSeq(p, 1, n)])}
  ELSE IF st.err THEN {st}
  ELSE {[st EXCEPT !.buf = @ \o p]}

TheStream == Stream(wire, bw.buf, bw.err)

SetStream(st) ==
  /\ wire' = st.wire
  /\ bw' = [buf |-> st.buf, err |-> st.err]

streamRest == <<now, cfgVars, agentVars, held, hprog, regMAC, groVars, net2Vars, stackVars, netVars, connVars, srvVars, lockVars,
                obsVars, nops, histVars, faultVars>>

\* writePkt(nil, ...) returns at once.
WritePktNil(w) ==
  /\ pktPc[w] = "idle"
  /\ wcalls < MaxStreamOps
  /\ wcalls' = wcalls + 1
  /\ UNCHANGED <<streamRest, wire, bw, writeMu, pktPc, pktOf, lockOrder>>

\* writeMu.Lock() that does not wait for the holder.
WritePktLockNoWait(w, pkt) ==
  /\ pktPc[w] = "idle"
  /\ wcalls < MaxStreamOps
  /\ pkt # NilPkt
  /\ proto["c1"] = "QEMU"
  /\ writeMu' = w
  /\ wcalls' = wcalls + 1
  /\ pktPc' = [pktPc EXCEPT ![w] = "hdr"]
  /\ pktOf' = [pktOf EXCEPT ![w] = pkt]
  /\ lockOrder' = Append(lockOrder, pkt)
  /\ UNCHANGED <<streamRest, wire, bw>>

\* writePkt(pkt, ...): writeMu.Lock() returns once nobody holds writeMu.
WritePktLock(w, pkt) ==
  /\ pktPc[w] = "idle"
  /\ wcalls < MaxStreamOps
  /\ pkt # NilPkt
  /\ proto["c1"] = "QEMU"
  /\ writeMu = NoHolder
  /\ writeMu' = w
  /\ wcalls' = wcalls + 1
  /\ pktPc' = [pktPc EXCEPT ![w] = "hdr"]
  /\ pktOf' = [pktOf EXCEPT ![w] = pkt]
  /\ lockOrder' = Append(lockOrder, pkt)
  /\ UNCHANGED <<streamRest, wire, bw>>

\* bw.Write(hdr); an error returns.
WritePktHdr(w) ==
  /\ pktPc[w] = "hdr"
  /\ \E st \in bwWrite(TheStream, StreamHdr(pktOf[w])) :
       /\ SetStream(st)
       /\ pktPc' = [pktPc EXCEPT ![w] = IF st.err THEN "unlock" ELSE "pkt"]
  /\ UNCHANGED <<streamRest, writeMu, pktOf, lockOrder, wcalls>>

\* bw.Write(pkt); an error returns.
WritePktBody(w) ==
  /\ pktPc[w] = "pkt"
  /\ \E st \in bwWrite(TheStream, pktOf[w]) :
       /\ SetStream(st)
       /\ pktPc' = [pktPc EXCEPT ![w] = IF st.err THEN "unlock" ELSE "flush"]
  /\ UNCHANGED <<streamRest, writeMu, pktOf, lockOrder, wcalls>>

\* bw.Flush(), whose error is logged, and the pcap record of the frame.
WritePktFlush(w) ==
  /\ pktPc[w] = "flush"
  /\ \E st \in bwFlush(TheStream) : SetStream(st)
  /\ pktPc' = [pktPc EXCEPT ![w] = "unlock"]
  /\ UNCHANGED <<streamRest, writeMu, pktOf, lockOrder, wcalls>>

\* The deferred writeMu.Unlock().
WritePktUnlock(w) ==
  /\ pktPc[w] = "unlock"
  /\ writeMu' = NoHolder
  /\ pktPc' = [pktPc EXCEPT ![w] = "idle"]
  /\ pktOf' = [pktOf EXCEPT ![w] = NilPkt]
  /\ UNCHANGED <<streamRest, wire, bw, lockOrder, wcalls>>

StreamInit ==
  /\ Connected
  /\ portmap = TRUE
  /\ v6 = TRUE
  /\ budget = MaxStreamOps

StreamNext ==
  \/ \E w \in StreamWriters : WritePktNil(w)
  \/ \E w \in StreamWriters : \E pkt \in StreamPkts(w) : WritePktLock(w, pkt)
  \/ \E w \in StreamWriters : WritePktHdr(w)
  \/ \E w \in StreamWriters : WritePktBody(w)
  \/ \E w \in StreamWriters : WritePktFlush(w)
  \/ \E w \in StreamWriters : WritePktUnlock(w)

StreamSpec == StreamInit /\ [][StreamNext]_vars

(***************************************************************************)
(* Package gro: receive checksum validation and the pooled GRO objects.    *)
(* A packet buffer is its sequence of bytes.                               *)
(***************************************************************************)
IPv4MinimumSize == 20
IPv4MaximumHeaderSize == 60
IPv6FixedHeaderSize == 40
ProtoTCP == 6
ProtoUDP == 17
ProtoICMPv6 == 58
ProtoHopByHop == 0

\* The sum of the big-endian 16-bit words of b from byte i on, a last odd
\* byte counting as the high byte of a word.
RECURSIVE SumWords(_, _)
SumWords(b, i) ==
  IF i > Len(b) THEN 0
  ELSE IF i = Len(b) THEN b[i] * 256
  ELSE b[i] * 256 + b[i + 1] + SumWords(b, i + 2)

FoldOnce(x) == (x \div 65536) + (x % 65536)

\* tun.Checksum(b, initial): the folded sum, not complemented.
Checksum(b, initial) == U16(FoldOnce(FoldOnce(FoldOnce(FoldOnce(initial + SumWords(b, 1))))))

\* tun.PseudoHeaderChecksum(protocol, srcAddr, dstAddr, totalLen)
PseudoHeaderChecksum(protocol, srcAddr, dstAddr, totalLen) ==
  SumWords(srcAddr, 1) + SumWords(dstAddr, 1) + SumWords(<<0, protocol>>, 1)
    + SumWords(PutBE16(totalLen), 1)

\* ^csum != 0 of a uint16.
ChecksumBad(csum) == csum # 65535

\* A packet.Parsed: the decoded fields and the buffer they were decoded
\* from.
Parsed(ver, ipproto, src, dst, buf) ==
  [IPVersion |-> ver, IPProto |-> ipproto, Src |-> src, Dst |-> dst, buf |-> buf]

\* parse.IPv6 on a buffer of Len(buf) >= 40 bytes: the transport protocol
\* behind the hop-by-hop extension headers, and the size of what is left
\* of the buffer behind the headers it consumed.
RECURSIVE parseIPv6From(_, _, _)
parseIPv6From(buf, next, at) ==
  IF next = ProtoHopByHop /\ at + 8 <= Len(buf)
  THEN parseIPv6From(buf, buf[at + 1], at + (buf[at + 2] + 1) * 8)
  ELSE [transportProto |-> next, size |-> IF at > Len(buf) THEN 0 ELSE Len(buf) - at]

parseIPv6(buf) == parseIPv6From(buf, buf[7], IPv6FixedHeaderSize)

NilPacketBuffer == [nil |-> TRUE]
PacketBuffer(pn, buf) ==
  [nil |-> FALSE, NetworkProtocolNumber |-> pn, RXChecksumValidated |-> TRUE, buf |-> buf]

\* The last part of RXChecksumOffload: the TCP or UDP checksum over the
\* pseudo header and buf[csumStart:], then the packet buffer.
validateL4(p, pn, csumStart, ipproto) ==
  IF ipproto \in {ProtoTCP, ProtoUDP}
     /\ ChecksumBad(Checksum(SubSeq(p.buf, csumStart + 1, Len(p.buf)),
                      PseudoHeaderChecksum(ipproto, p.Src, p.Dst, U16(Len(p.buf) - csumStart))))
  THEN NilPacketBuffer
  ELSE PacketBuffer(pn, p.buf)

\* RXChecksumOffload(p): nil unless the IPv4 header checksum and the TCP or
\* UDP checksum of p are valid.
RXChecksumOffload(p) ==
  IF p.IPVersion = 4
  THEN IF Len(p.buf) < IPv4MinimumSize THEN NilPacketBuffer
       ELSE LET csumStart == (p.buf[1] % 16) * 4
            IN  IF csumStart < IPv4MinimumSize \/ csumStart > IPv4MaximumHeaderSize
                   \/ Len(p.buf) < csumStart
                THEN NilPacketBuffer
                ELSE IF ChecksumBad(Checksum(SubSeq(p.buf, 1, csumStart), 0))
                THEN NilPacketBuffer
                ELSE validateL4(p, "IPv4", csumStart, p.IPProto)
  ELSE IF p.IPVersion = 6
  THEN IF Len(p.buf) < IPv6FixedHeaderSize THEN NilPacketBuffer
       ELSE IF p.IPProto \notin {ProtoICMPv6, ProtoTCP, ProtoUDP}
       THEN LET t == parseIPv6(p.buf)
            IN  IF t.transportProto \in {ProtoTCP, ProtoUDP}
                THEN IF Len(p.buf) < t.size THEN NilPacketBuffer
                     ELSE validateL4(p, "IPv6", Len(p.buf) - t.size, t.transportProto)
                ELSE validateL4(p, "IPv6", IPv6FixedHeaderSize, p.IPProto)
       ELSE validateL4(p, "IPv6", IPv6FixedHeaderSize, p.IPProto)
  ELSE validateL4(p, "", 0, p.IPProto)

\* The packets the callers enqueue.  b with the 16-bit word at byte i
\* replaced by x:
SetBE16(b, i, x) == [k \in 1..Len(b) |-> IF k = i THEN x \div 256 ELSE IF k = i + 1 THEN x % 256 ELSE b[k]]

GROSrc4 == <<192, 168, 1, 2>>
GRODst4 == <<52, 52, 0, 9>>
GROSrc6 == <<253, 0, 0, 0, 0, 0, 0, 0, 0, 0, 0, 0, 0, 0, 0, 2>>
GRODst6 == <<253, 0, 0, 0, 0, 0, 0, 0, 0, 0, 0, 0, 0, 0, 0, 9>>

\* An IPv4 header without options, its checksum filled in.
IPv4Header(ipproto, totalLen) ==
  LET h == <<69, 0>> \o PutBE16(totalLen) \o <<0, 1, 0, 0, 64, ipproto, 0, 0>> \o GROSrc4 \o GRODst4
  IN  SetBE16(h, 11, 65535 - Checksum(h, 0))

IPv6Header(next, payloadLen) ==
  <<96, 0, 0, 0>> \o PutBE16(payloadLen) \o <<next, 64>> \o GROSrc6 \o GRODst6

\* A transport segment l4 whose checksum field is at byte at, filled in
\* for the pseudo header of ipproto, src and dst.
WithChecksum(l4, at, ipproto, src, dst) ==
  SetBE16(l4, at, 65535 - Checksum(l4, PseudoHeaderChecksum(ipproto, src, dst, Len(l4))))

UDPSegment == <<19, 136, 0, 53>> \o PutBE16(10) \o <<0, 0>> \o <<7, 9>>
TCPSegment ==
  <<19, 136, 0, 80, 0, 0, 0, 1, 0, 0, 0, 0, 80, 16, 4, 0, 0, 0, 0, 0>> \o <<7, 9, 11>>
HopByHop(next) == <<next, 0, 1, 4, 0, 0, 0, 0>>

\* b with its last byte changed.
Corrupt(b) == [k \in 1..Len(b) |-> IF k = Len(b) THEN (b[k] + 1) % 256 ELSE b[k]]

GROPacket(name) ==
  LET udp4 == IPv4Header(ProtoUDP, 30) \o WithChecksum(UDPSegment, 7, ProtoUDP, GROSrc4, GRODst4)
      tcp4 == IPv4Header(ProtoTCP, 43) \o WithChecksum(TCPSegment, 17, ProtoTCP, GROSrc4, GRODst4)
      udp6 == IPv6Header(ProtoUDP, 10) \o WithChecksum(UDPSegment, 7, ProtoUDP, GROSrc6, GRODst6)
      ext6 == IPv6Header(ProtoHopByHop, 18) \o HopByHop(ProtoUDP)
                \o WithChecksum(UDPSegment, 7, ProtoUDP, GROSrc6, GRODst6)
  IN  CASE name = "udp4" -> Parsed(4, ProtoUDP, GROSrc4, GRODst4, udp4)
        [] name = "udp4-bad" -> Parsed(4, ProtoUDP, GROSrc4, GRODst4, Corrupt(udp4))
        [] name = "udp4-badhdr" -> Parsed(4, ProtoUDP, GROSrc4, GRODst4, SetBE16(udp4, 11, 0))
        [] name = "udp4-short" -> Parsed(4, ProtoUDP, GROSrc4, GRODst4, SubSeq(udp4, 1, 12))
        [] name = "tcp4" -> Parsed(4, ProtoTCP, GROSrc4, GRODst4, tcp4)
        [] name = "tcp4-bad" -> Parsed(4, ProtoTCP, GROSrc4, GRODst4, Corrupt(tcp4))
        [] name = "icmp4" -> Parsed(4, 1, GROSrc4, GRODst4, IPv4Header(1, 22) \o <<8, 0>>)
        [] name = "udp6" -> Parsed(6, ProtoUDP, GROSrc6, GRODst6, udp6)
        [] name = "udp6-bad" -> Parsed(6, ProtoUDP, GROSrc6, GRODst6, Corrupt(udp6))
        [] name = "ext6" -> Parsed(6, ProtoHopByHop, GROSrc6, GRODst6, ext6)
        [] name = "ext6-bad" -> Parsed(6, ProtoHopByHop, GROSrc6, GRODst6, Corrupt(ext6))
        [] OTHER -> Parsed(0, 0, <<>>, <<>>, <<>>)

GROPackets ==
  {"udp4", "udp4-bad", "udp4-badhdr", "udp4-short", "tcp4", "tcp4-bad", "icmp4", "udp6", "udp6-bad",
   "ext6", "ext6-bad", "unparsed"}

\* The GRO objects there can be, and the dispatchers of the callers.
GROs == {"g1", "g2"}
NilDispatcher == ""
Dispatchers == {"d1", "d2"}

\* groPool.New: a GRO whose coalescer is initialised and holds nothing.
groPoolNew == [Dispatcher |-> NilDispatcher, maybeEnqueued |-> FALSE, held |-> <<>>]

GROOp(op, g, pkt, handed, flushed) ==
  [op |-> op, g |-> g, pkt |-> pkt, handed |-> handed, flushed |-> flushed]

groRest == <<now, cfgVars, agentVars, held, hprog, regMAC, streamVars, net2Vars, stackVars, netVars, connVars, srvVars,
             lockVars, obsVars, nops, histVars, faultVars>>

\* NewGRO(): groPool.Get() returns an object that Flush has put back, or
\* makes one with groPool.New.
NewGRO(g) ==
  /\ gops < MaxGROOps
  /\ groAt[g] \in {"pool", "none"}
  /\ groAt' = [groAt EXCEPT ![g] = "used"]
  /\ groObj' = IF groAt[g] = "none" THEN [groObj EXCEPT ![g] = groPoolNew] ELSE groObj
  /\ groOp' = GROOp("NewGRO", g, "", FALSE, FALSE)
  /\ gops' = gops + 1
  /\ UNCHANGED <<groRest, groSince, groDelivered>>

\* g.SetDispatcher(d)
SetDispatcher(g, d) ==
  /\ gops < MaxGROOps
  /\ groAt[g] = "used"
  /\ groObj' = [groObj EXCEPT ![g].Dispatcher = d]
  /\ groOp' = GROOp("SetDispatcher", g, "", FALSE, FALSE)
  /\ gops' = gops + 1
  /\ UNCHANGED <<groRest, groAt, groSince, groDelivered>>

\* g.Enqueue(p): nothing without a dispatcher or for a packet that
\* RXChecksumOffload refuses; otherwise the coalescer gets the packet,
\* which it holds (a TCP segment it can coalesce) or delivers at once.
Enqueue(g, name) ==
  /\ gops < MaxGROOps
  /\ groAt[g] = "used"
  /\ gops' = gops + 1
  /\ IF groObj[g].Dispatcher = NilDispatcher \/ RXChecksumOffload(GROPacket(name)).nil
     THEN /\ groOp' = GROOp("Enqueue", g, name, FALSE, FALSE)
          /\ UNCHANGED <<groObj, groSince, groDelivered>>
     ELSE /\ groOp' = GROOp("Enqueue", g, name, TRUE, FALSE)
          /\ groSince' = [groSince EXCEPT ![g] = @ + 1]
          /\ \/ /\ GROPacket(name).IPProto = ProtoTCP
                /\ groObj' = [groObj EXCEPT ![g].maybeEnqueued = TRUE, ![g].held = Append(@, name)]
                /\ UNCHANGED groDelivered
             \/ /\ groObj' = [groObj EXCEPT ![g].maybeEnqueued = TRUE]
                /\ groDelivered' = Append(groDelivered, <<groObj[g].Dispatcher, name>>)
  /\ UNCHANGED <<groRest, groAt>>

\* Flush that leaves the pending mark as it is.
FlushKeepsMark(g) ==
  /\ gops < MaxGROOps
  /\ groAt[g] = "used"
  /\ gops' = gops + 1
  /\ LET flush == groObj[g].Dispatcher # NilDispatcher /\ groObj[g].maybeEnqueued
     IN  /\ groOp' = GROOp("Flush", g, "", FALSE, flush)
         /\ groDelivered' = IF flush
                            THEN groDelivered \o [i \in 1..Len(groObj[g].held) |->
                                                    <<groObj[g].Dispatcher, groObj[g].held[i]>>]
                            ELSE groDelivered
         /\ groObj' = [groObj EXCEPT ![g] =
                         [Dispatcher |-> NilDispatcher, maybeEnqueued |-> @.maybeEnqueued,
                          held |-> IF flush THEN <<>> ELSE @.held]]
  /\ groSince' = [groSince EXCEPT ![g] = 0]
  /\ groAt' = [groAt EXCEPT ![g] = "pool"]
  /\ UNCHANGED groRest

\* g.Flush(): the coalescer is flushed if there is a dispatcher and a
\* packet may have been enqueued; the dispatcher and the mark are cleared
\* and the object goes back to the pool.
Flush(g) ==
  /\ gops < MaxGROOps
  /\ groAt[g] = "used"
  /\ gops' = gops + 1
  /\ LET flush == groObj[g].Dispatcher # NilDispatcher /\ groObj[g].maybeEnqueued
     IN  /\ groOp' = GROOp("Flush", g, "", FALSE, flush)
         /\ groDelivered' = IF flush
                            THEN groDelivered \o [i \in 1..Len(groObj[g].held) |->
                                                    <<groObj[g].Dispatcher, groObj[g].held[i]>>]
                            ELSE groDelivered
         /\ groObj' = [groObj EXCEPT ![g] =
                         [Dispatcher |-> NilDispatcher, maybeEnqueued |-> FALSE,
                          held |-> IF flush THEN <<>> ELSE @.held]]
  /\ groSince' = [groSince EXCEPT ![g] = 0]
  /\ groAt' = [groAt EXCEPT ![g] = "pool"]
  /\ UNCHANGED groRest

GROInit ==
  /\ Connected
  /\ portmap = TRUE
  /\ v6 = TRUE
  /\ budget = MaxGROOps

GRONext ==
  \/ \E g \in GROs : NewGRO(g)
  \/ \E g \in GROs, d \in Dispatchers \cup {NilDispatcher} : SetDispatcher(g, d)
  \/ \E g \in GROs, name \in GROPackets : Enqueue(g, name)
  \/ \E g \in GROs : Flush(g)

GROSpec == GROInit /\ [][GRONext]_vars

(***************************************************************************)
(* Properties of the NAT engine.                                           *)
(***************************************************************************)
\* The port-mapping entries whose LAN target is dst.
EntriesFor(pm, dst) == {k \in DOMAIN pm : pm[k].dst = dst}

C2_RefreshIdempotent ==
  [][\A i \in 1..Len(calls') :
       LET c == calls'[i]
           live == {k \in EntriesFor(portMap, c.a) : now < portMap[k].expiry}
       IN  (c.op = "portMap" /\ c.sec > 0 /\ live # {})
             => /\ c.ok
                /\ c.res \in live
                /\ Has(granted, c.a)
                /\ c.res.port = granted[c.a]
                /\ EntriesFor(portMap', c.a) = {c.res}
                /\ portMap'[c.res].expiry = now + c.sec]_vars

\* A refresh that asked for another port than the entry's, at a later time.
C2_Witness ==
  /\ Len(calls) = 1
  /\ calls[1].op = "portMap"
  /\ calls[1].via = "refreshed"
  /\ calls[1].b.port # calls[1].res.port
  /\ now > 0
  /\ portMap[calls[1].res].expiry = now + calls[1].sec

\* C3: doPortMap(L, internalPort, E, 0) removes the entry keyed by E only
\* when that entry's LAN target is exactly (L, internalPort); in every
\* other case the port-mapping table is unchanged.
C3_DeleteOnlyExactTarget ==
  [][\A i \in 1..Len(calls') :
       LET c == calls'[i]
       IN  (c.op = "portMap" /\ c.sec = 0)
             => portMap' = IF Has(portMap, c.b) /\ portMap[c.b].dst = c.a
                           THEN Del(portMap, c.b)
                           ELSE portMap]_vars

\* C4 (as the code has it): a port doPortMap allocates that is not the
\* requested one lies in 32768..65535.
C4_AllocatedPortRange ==
  [][\A i \in 1..Len(calls') :
       LET c == calls'[i]
       IN  (/\ c.op = "portMap"
            /\ c.sec > 0
            /\ c.ok
            /\ EntriesFor(portMap, c.a) = {}
            /\ c.res.port # c.b.port)
             => c.res.port >= 32768 /\ c.res.port <= 65535]_vars

\* C4, as claimed: such a port lies in 49152..65535.
C4_EphemeralRange ==
  [][\A i \in 1..Len(calls') :
       LET c == calls'[i]
       IN  (/\ c.op = "portMap"
            /\ c.sec > 0
            /\ c.ok
            /\ EntriesFor(portMap, c.a) = {}
            /\ c.res.port # c.b.port)
             => c.res.port >= 49152 /\ c.res.port <= 65535]_vars

\* The requested port was in use by the strategy and a random one was taken.
C4_Witness ==
  /\ Len(calls) = 1
  /\ calls[1].op = "portMap"
  /\ calls[1].via = "random"
  /\ calls[1].b.port = 49152
  /\ StratIsPublicPortUsed(natTable, calls[1].b)
  /\ calls[1].res.port # 49152
  /\ Has(portMap, calls[1].res)

\* C8: a datagram from the WAN whose destination has an expired
\* port-mapping entry makes doNATIn delete the entry and return invalid
\* without consulting the strategy; nothing is written to the LAN and the
\* hairpin-flow cache is unchanged.
C8_ExpiredEntryDropped ==
  [][(/\ inp'.kind = "wan"
      /\ Has(portMap, inp'.frame.pkt.dst)
      /\ now >= portMap[inp'.frame.pkt.dst].expiry)
       => /\ portMap' = Del(portMap, inp'.frame.pkt.dst)
          /\ Len(calls') = 1
          /\ calls'[1].op = "natIn"
          /\ ~IsValid(calls'[1].res)
          /\ calls'[1].via # "strategy"
          /\ out' = {}
          /\ natTable' = natTable
          /\ portMapFlow' = portMapFlow]_vars

\* An expired entry was hit and is gone, while the flow it once made stays.
C8_Witness ==
  /\ inp.kind = "wan"
  /\ Len(calls) = 1
  /\ calls[1].via = "expired"
  /\ ~Has(portMap, calls[1].b)
  /\ out = {}
  /\ portMapFlow # EmptyMap

(***************************************************************************)
(* Properties of the Server's shutdown.                                    *)
(***************************************************************************)
\* A ServeUnixConn call that has passed the shutting-down check and has
\* not returned.
Running(c) == conns[c] \in {"add", "afterfunc", "read", "continue"}

\* C5: once Close is called, eventually Close has returned and no
\* connection worker, stream or datagram, is still running.
C5_CloseTerminates ==
  (closePc # "idle") ~> (closePc = "returned" /\ \A c \in Conns : ~Running(c))

\* C6: when Close has returned, no connection worker is past the
\* shutting-down check and still running.
C6_NoWorkerAfterClose ==
  closePc = "returned" => \A c \in Conns : ~Running(c)

(***************************************************************************)
(* Properties of the NAT lock.                                             *)
(***************************************************************************)
\* C7: every step that reads or writes natTable, portMap or portMapFlow is
\* taken by the holder of natMu, and every operation leaves the state and
\* returns the result that the whole operation, run alone on the state it
\* found, leaves and returns: the operations take effect one at a time.
C7_NATOperationsSerialized ==
  [][\A w \in Workers :
       /\ (wpc[w] \in {"read", "write"} /\ wpc'[w] # wpc[w]) => natMu = w
       /\ (wpc[w] = "write" /\ wpc'[w] = "unlock")
            => \E r \in LockedBody(wop[w], State, portmap, now) :
                 /\ natTable' = r.st.natTable
                 /\ portMap' = r.st.portMap
                 /\ portMapFlow' = r.st.portMapFlow
                 /\ wres'[w] = r.res]_vars

\* One caller has mapped a port and still holds natMu while the other
\* waits for it with an inbound translation to that port.
C7_Witness ==
  \E w \in Workers, u \in Workers :
    /\ w # u
    /\ natMu = w
    /\ wpc[w] = "unlock"
    /\ wop[w].op = "portMap"
    /\ Has(portMap, wres[w])
    /\ wpc[u] = "lock"
    /\ wop[u].op = "natIn"

UnknownARP(ep) ==
  ep.etype = "ARP" /\ ep.pkt.kind = "arp-request" /\ ~MACOfIP(ep.pkt.target)[2]

\* A neighbor solicitation for a target other than the router's link-local
\* address.
ForeignNS(ep) ==
  ep.etype = "IPv6" /\ ep.pkt.kind = "ns" /\ ep.pkt.target # RouterLinkLocal

\* C10 (as the code has it): an ARP request for an unknown address
\* produces no frame; a neighbor solicitation for a target other than the
\* router's link-local address produces no reply, and no frame at all when
\* it is sent to an IPv6-multicast MAC or to the router's MAC; sent to the
\* broadcast MAC or to another Node's MAC, the solicitation itself is
\* delivered on the LAN like any other frame.
C10_NoReplyToUnknown ==
  inp.kind = "frame" =>
    /\ UnknownARP(inp.frame) => out = {}
    /\ ForeignNS(inp.frame) =>
         /\ \A wr \in out : wr.frame = inp.frame
         /\ (IsIPv6Multicast(inp.frame.dst) \/ inp.frame.dst = RouterMAC) => out = {}

\* C10, as claimed: neither produces a frame to any writer.
C10_Silence ==
  (inp.kind = "frame" /\ (UnknownARP(inp.frame) \/ ForeignNS(inp.frame))) => out = {}

\* A solicitation for an unknown target, sent to a multicast MAC on an
\* IPv6 Network with both Nodes' writers registered, went unanswered.
C10_Witness ==
  /\ inp.kind = "frame"
  /\ ForeignNS(inp.frame)
  /\ inp.frame.dst = SolicitedNodeMAC
  /\ v6
  /\ DOMAIN writers = {Node1MAC, Node2MAC}
  /\ out = {}

(***************************************************************************)
(* C11: a DNS query that the router handles and in which any question      *)
(* names a host under .pool.ntp.org gets no reply: the only frames written *)
(* in that step are copies of the query itself (a broadcast query is       *)
(* flooded to the other Node), never a DNS response.                       *)
(***************************************************************************)
AsksPoolNTP(ep) ==
  /\ isDNSRequest(ep.pkt)
  /\ DecodeDNS(ep.pkt.payload)[2].opcode = DNSOpCodeQuery
  /\ \E i \in DOMAIN DecodeDNS(ep.pkt.payload)[2].questions :
       HasSuffixPoolNTP(DecodeDNS(ep.pkt.payload)[2].questions[i].name)

C11_NTPQueriesDropped ==
  (inp.kind = "frame" /\ AsksPoolNTP(inp.frame))
    => \A wr \in out : wr.frame = inp.frame

\* A query whose second question names an NTP pool host was handled and
\* nothing was written; and a query for a known name was answered.
C11_Witness ==
  /\ inp.kind = "frame"
  /\ AsksPoolNTP(inp.frame)
  /\ inp.frame.dst = RouterMAC
  /\ ~HasSuffixPoolNTP(DecodeDNS(inp.frame.pkt.payload)[2].questions[1].name)
  /\ out = {}

C11_AnsweredWitness ==
  /\ inp.kind = "frame"
  /\ isDNSRequest(inp.frame.pkt)
  /\ \E wr \in out : wr.frame.pkt.src = AP(fakeDNS4, 53) /\ wr.frame.pkt.payload[1] = 1
(***************************************************************************)
(* C12: when the router handles a NAT-PMP map request (opcode 1), a map    *)
(* reply (opcode 129) is written if and only if doPortMap reported success *)
(* for a lifetime above 0; the reply's external port is the port of the    *)
(* mapping now stored for (request source address, internal port); and a   *)
(* request of lifetime 0 gets no reply.                                    *)
(***************************************************************************)
IsMapRequest(ep) ==
  /\ isNATPMP(ep.pkt)
  /\ Len(ep.pkt.payload) = 12
  /\ ep.pkt.payload[1] = 0
  /\ ep.pkt.payload[2] = 1

MapReplies(ws) == {wr \in ws : Len(wr.frame.pkt.payload) = 16 /\ wr.frame.pkt.payload[2] = 129}

C12_ReplyIffMapped ==
  (inp.kind = "frame" /\ IsMapRequest(inp.frame))
    => LET req == inp.frame.pkt
           internal == AP(req.src.addr, BE16(req.payload, 5))
           sec == BE32(req.payload, 9)
           ok == /\ Len(calls) = 1
                 /\ calls[1].op = "portMap"
                 /\ calls[1].a = internal
                 /\ calls[1].ok
                 /\ calls[1].sec > 0
       IN  /\ (MapReplies(out) # {}) <=> ok
           /\ sec = 0 => MapReplies(out) = {}
           /\ \A wr \in MapReplies(out) :
                /\ wr.frame.pkt.dst = req.src
                /\ BE16(wr.frame.pkt.payload, 9) = internal.port
                /\ AP(wanIP4, BE16(wr.frame.pkt.payload, 11)) \in EntriesFor(portMap, internal)
                /\ AP(wanIP4, BE16(wr.frame.pkt.payload, 11)) = calls[1].res

\* A map request was granted another port than it asked for and the reply
\* names the granted port; a request failed and got no reply; a deletion
\* removed a mapping and got no reply.
C12_Witness ==
  /\ inp.kind = "frame"
  /\ IsMapRequest(inp.frame)
  /\ MapReplies(out) # {}
  /\ \E wr \in MapReplies(out) :
       BE16(wr.frame.pkt.payload, 11) # BE16(inp.frame.pkt.payload, 7)

C12_FailedWitness ==
  /\ inp.kind = "frame"
  /\ IsMapRequest(inp.frame)
  /\ BE32(inp.frame.pkt.payload, 9) > 0
  /\ Len(calls) = 1
  /\ ~calls[1].ok
  /\ out = {}

C12_DeletedWitness ==
  /\ inp.kind = "frame"
  /\ IsMapRequest(inp.frame)
  /\ BE32(inp.frame.pkt.payload, 9) = 0
  /\ Len(calls) = 1
  /\ calls[1].via = "deleted"
  /\ out = {}
(***************************************************************************)
(* C13: every well-formed Ethernet frame read from a client connection,    *)
(* the first frame from a MAC and frames from unregistered MACs included,  *)
(* is recorded in the pcap sink exactly once in the step that reads it,    *)
(* and so is every frame written to a client by a registered writer.       *)
(* The read loop skips the record for the first frame of a MAC and for a   *)
(* frame from an unknown MAC.                                              *)
(***************************************************************************)
ReadKinds == {"frame", "register", "unknown"}

\* The number of records of frame f made on behalf of its sender.
ReadRecords(f) ==
  IF Has(nodeByMAC, f.src)
  THEN Cardinality({i \in DOMAIN pcap.recs : pcap.recs[i] = Rec(InterfaceOf(f.src), f)})
  ELSE Cardinality({i \in DOMAIN pcap.recs : pcap.recs[i].frame = f})

C13_EveryFrameRecordedOnce ==
  (pcapWriter # "failing" /\ ~crashed)
    => /\ inp.kind \in ReadKinds => ReadRecords(inp.frame) = 1
       /\ \A wr \in out : Rec(InterfaceOf(wr.to), wr.frame) \in pcap.writes

(***************************************************************************)
(* C14: in stream framing, once a write to a connection has failed no      *)
(* further frame is read from that connection.  writePkt logs the error    *)
(* and returns, and the read loop of the connection goes on.               *)
(***************************************************************************)
C14_WriteFailureTerminal ==
  [][\A c \in Conns :
       (c \in writeFailed /\ proto[c] = "QEMU")
         => ~(nops' = nops + 1 /\ inp'.kind \in ReadKinds /\ ConnOf(inp'.frame) = c)]_vars

(***************************************************************************)
(* C20: once writes to the pcap sink fail, no step delivers a frame to a   *)
(* client: the operation that made the failed record stops before it       *)
(* forwards or delivers.  The router's WritePacket calls drop the error    *)
(* and writePkt records after it has written.                              *)
(***************************************************************************)
C20_AuditFailureFatal ==
  pcapWriter = "failing" => out = {}
(***************************************************************************)
(* C15: no frame or sequence of frames sent by a client crashes the        *)
(* Server.  A UDP datagram from port 68 to port 67 whose payload is no     *)
(* DHCP message panics in createDHCPResponse, and a stream length prefix   *)
(* beyond the read buffer panics in the read loop.                         *)
(***************************************************************************)
C15_NoClientCrash == ~crashed
(***************************************************************************)
(* C16: a TCP connection to port 80 or 443 of the control-plane, relay-1,  *)
(* relay-2 or log-catcher address is intercepted, accepted and served by   *)
(* the backend that owns the address.  acceptTCP resets control:443 and    *)
(* logcatcher:80 and serves relay 2's port 80 with relay 1's handler.      *)
(***************************************************************************)
OwnerOf(a) ==
  IF a = fakeControl4 THEN "control"
  ELSE IF a = fakeDERP1v4 THEN "derps[0]"
  ELSE IF a = fakeDERP2v4 THEN "derps[1]"
  ELSE "logcatcher"

C16_ServedByOwner ==
  (/\ inp.kind = "frame"
   /\ inp.frame.pkt.kind = "tcp"
   /\ inp.frame.pkt.dst.port \in {80, 443}
   /\ inp.frame.pkt.dst.addr \in {fakeControl4, fakeDERP1v4, fakeDERP2v4, fakeLogCatcher4})
    => /\ Len(calls) = 1
       /\ calls[1].op = "acceptTCP"
       /\ calls[1].ok
       /\ calls[1].via = OwnerOf(inp.frame.pkt.dst.addr)
(***************************************************************************)
(* C17: a valid STUN binding request that a Node sends to UDP port 3478    *)
(* and that passes the outbound NAT is answered in-process whatever its    *)
(* source port after NAT, 3478 included: exactly one binding response is   *)
(* written, to the requesting Node, its mapped address is the source after *)
(* NAT, and the only inbound NAT call is the one that routes the response  *)
(* back.  A response for port 3478 is taken for a request and dropped.     *)
(***************************************************************************)
IsBindingResponse(wr) ==
  /\ Len(wr.frame.pkt.payload) = 6
  /\ wr.frame.pkt.payload[1] = 1
  /\ wr.frame.pkt.src.port = stunPort

C17_STUNAnswered ==
  (/\ inp.kind = "frame"
   /\ inp.frame.pkt.kind = "udp"
   /\ inp.frame.pkt.dst.port = stunPort
   /\ ParseBindingRequest(inp.frame.pkt.payload)[1]
   /\ Len(calls) > 0
   /\ calls[1].op = "natOut"
   /\ calls[1].ok)
    => /\ Cardinality({wr \in out : IsBindingResponse(wr)}) = 1
       /\ \A wr \in out :
            /\ IsBindingResponse(wr)
            /\ wr.to = inp.frame.src
            /\ wr.frame.pkt.src = inp.frame.pkt.dst
            /\ wr.frame.pkt.payload =
                 STUNResponse(inp.frame.pkt.payload[3], calls[1].res)
       /\ Len(calls) = 2
       /\ calls[2].op = "natIn"
       /\ calls[2].a = inp.frame.pkt.dst
       /\ calls[2].b = calls[1].res
(***************************************************************************)
(* C18: doNATOut returns an IPv6 source unchanged and doNATIn returns an   *)
(* IPv6 destination unchanged, without consulting the strategy; a step     *)
(* whose NAT calls are all for IPv6 leaves the strategy's state, the       *)
(* port-mapping table and the hairpin-flow cache as they were.             *)
(***************************************************************************)
IsV6Call(c) ==
  \/ c.op = "natOut" /\ Is6(c.a.addr)
  \/ c.op = "natIn" /\ Is6(c.b.addr)

C18_IPv6PassThrough ==
  [][/\ \A i \in 1..Len(calls') :
          IsV6Call(calls'[i])
            => /\ calls'[i].via = "v6"
               /\ calls'[i].ok
               /\ calls'[i].res = IF calls'[i].op = "natOut" THEN calls'[i].a ELSE calls'[i].b
     /\ (Len(calls') > 0 /\ \A i \in 1..Len(calls') : IsV6Call(calls'[i]))
          => /\ natTable' = natTable
             /\ portMap' = portMap
             /\ portMapFlow' = portMapFlow]_vars

\* After an IPv4 flow went through the strategy, a datagram for Node 1's
\* IPv6 address came in from the WAN and doNATIn returned its destination.
C18_Witness ==
  /\ natTable # NewNATTable("easy")
  /\ inp.kind = "wan"
  /\ Len(calls) = 1
  /\ calls[1].op = "natIn"
  /\ calls[1].via = "v6"
  /\ calls[1].res = inp.frame.pkt.dst

\* A datagram from Node 1's IPv6 address went out with its source as sent.
C18_OutWitness ==
  /\ inp.kind = "frame"
  /\ Len(calls) = 2
  /\ calls[1].op = "natOut"
  /\ calls[1].via = "v6"
  /\ calls[1].res = inp.frame.pkt.src
  /\ calls[2].via = "v6"
(***************************************************************************)
(* C19: whenever an agent connection of Node 1 is in the idle pool while   *)
(* a takeAgentConn caller whose context is never cancelled is waiting,     *)
(* eventually that connection has been taken or that caller has returned   *)
(* with a connection of the Node: a signal sent before the caller          *)
(* registered, or to another caller's channel, is made up for by the       *)
(* periodic re-check.                                                      *)
(***************************************************************************)
Waiting(t) == tpc[t] \in {"one", "register", "select"}

C19_IdleConnTaken ==
  \A ac \in {a \in AgentConnsOffered : a.node = "node1"} :
    (ac \in agentConns /\ Waiting("t1"))
      ~> (ac \notin agentConns \/ (tpc["t1"] = "done" /\ tgot["t1"].node = "node1"))

\* The caller sits in its select on a channel that another caller's
\* registration has replaced, with a connection in the pool: the signal
\* was lost; and the caller has returned a connection after that.
C19_LostSignal ==
  /\ tpc["t1"] = "select"
  /\ agentConnWaiter["node1"] = "t2"
  /\ \E ac \in agentConns : ac.node = "node1"

C19_Witness ==
  /\ "t1" \in missed
  /\ tpc["t1"] = "done"
  /\ tgot["t1"].node = "node1"
  /\ agentConnWaiter["node1"] = "t2"

(***************************************************************************)
(* Properties of the NAT engine, continued.                                *)
(***************************************************************************)
\* The doNATOut calls of the last step that answered from portMapFlow.
FlowCalls == {i \in DOMAIN calls : calls[i].op = "natOut" /\ calls[i].via = "flow"}

\* C21: whenever doNATOut returns a WAN source taken from a hairpin-flow
\* entry, portMap still has an entry for that WAN address:port and the
\* entry still maps to the LAN address:port the call translated.
C21_HairpinNotAuthoritative ==
  \A i \in FlowCalls :
    /\ Has(portMap, calls[i].res)
    /\ portMap[calls[i].res].dst = calls[i].a

\* C22: a doPortMap call with a lifetime above 0, made when portMap has no
\* entry for the LAN target and for a requested external port other than 0
\* that the strategy reports free, returns the requested port and leaves
\* portMap[WAN address:requested port] = (LAN target, now + lifetime); and
\* no entry of portMap ever has external port 0.
C22_RequestedPortGranted ==
  [][/\ \A i \in DOMAIN calls' :
          (/\ calls'[i].op = "portMap"
           /\ calls'[i].sec > 0
           /\ calls'[i].b.port # 0
           /\ EntriesFor(portMap, calls'[i].a) = {}
           /\ ~StratIsPublicPortUsed(natTable, calls'[i].b))
            => /\ calls'[i].ok
               /\ calls'[i].res = calls'[i].b
               /\ Has(portMap', calls'[i].b)
               /\ portMap'[calls'[i].b] =
                    [dst |-> calls'[i].a, expiry |-> now + calls'[i].sec]
     /\ \A k \in DOMAIN portMap' : k.port # 0
     /\ \A i \in DOMAIN calls' :
          (calls'[i].op = "portMap" /\ calls'[i].ok) => calls'[i].res.port # 0]_vars

\* The requested port 49152 has been granted at time 1.
C22_Witness ==
  /\ Len(calls) = 1
  /\ calls[1].op = "portMap"
  /\ calls[1].via = "requested"
  /\ calls[1].res.port = 49152
  /\ now = 1
  /\ Has(portMap, calls[1].res)
  /\ portMap[calls[1].res] = [dst |-> calls[1].a, expiry |-> 3]

\* A request for port 0 has been granted another port.
C22_ZeroWitness ==
  /\ Len(calls) = 1
  /\ calls[1].op = "portMap"
  /\ calls[1].b.port = 0
  /\ calls[1].ok

\* The doPortMap calls of a step that went through the allocation loop and
\* failed: a lifetime above 0, no entry for the LAN target before the call.
GaveUp(cs, pm) ==
  {i \in DOMAIN cs : /\ cs[i].op = "portMap"
                     /\ cs[i].sec > 0
                     /\ EntriesFor(pm, cs[i].a) = {}
                     /\ ~cs[i].ok}

\* C23: a doPortMap call whose allocation loop finds every port it tries
\* in use returns (0, false) after its bounded number of attempts; the
\* step leaves portMap and portMapFlow as they were and natMu free, and
\* writes no NAT-PMP reply.
C23_ExhaustionFails ==
  [][GaveUp(calls', portMap) # {}
       => /\ \A i \in GaveUp(calls', portMap) :
               calls'[i].via = "exhausted" /\ calls'[i].res.port = 0
          /\ portMap' = portMap
          /\ portMapFlow' = portMapFlow
          /\ natMu' = NoHolder
          /\ out' = {}]_vars

\* A map request for any port has failed because the strategy had the
\* two ports tried in use.
C23_Witness ==
  /\ inp.kind = "frame"
  /\ Len(calls) = 1
  /\ calls[1].op = "portMap"
  /\ calls[1].via = "exhausted"
  /\ ~calls[1].ok
  /\ out = {}

(***************************************************************************)
(* Properties of the router's dispatch.                                    *)
(***************************************************************************)
\* The last step read a frame for the router's MAC that carries a NAT-PMP
\* (version 0) datagram for port 5351.
ReadNATPMP ==
  /\ inp.kind = "frame"
  /\ inp.frame.dst = RouterMAC
  /\ isNATPMP(inp.frame.pkt)

\* Its destination IP is neither the router's LAN address, the unspecified
\* address nor a link-local address.
OffLAN(ip) == ip # lanIP4 /\ ip # IPv4Unspecified /\ ~IsLinkLocalUnicast(ip)

\* The NAT-PMP replies among the writes ws: opcode 128 or 129 from port 5351.
PMPReplies(ws) ==
  {wr \in ws : /\ wr.frame.pkt.kind = "udp"
               /\ wr.frame.pkt.src.port = pcpPort
               /\ Len(wr.frame.pkt.payload) >= 2
               /\ wr.frame.pkt.payload[1] = 0
               /\ wr.frame.pkt.payload[2] \in {128, 129}}

PortMapCalls == {i \in DOMAIN calls : calls[i].op = "portMap"}

\* The datagram went the way of transit UDP: doNATOut was called first,
\* for its source and destination.
WentOut ==
  /\ Len(calls) >= 1
  /\ calls[1].op = "natOut"
  /\ calls[1].a = inp.frame.pkt.src
  /\ calls[1].b = inp.frame.pkt.dst

\* C24 (as the code has it): a NAT-PMP datagram is handled as a NAT-PMP
\* request only when its destination IP is the router's LAN address, the
\* unspecified address or a link-local address.  Addressed to any other
\* IP except the virtual syslog address, it makes no doPortMap call, gets
\* no NAT-PMP reply and is outbound-NATed and routed as transit UDP;
\* addressed to the syslog address, it is consumed as syslog, with no
\* doPortMap call and no reply either.
C24_OffLANNotNATPMP ==
  ReadNATPMP =>
    /\ (PortMapCalls # {} \/ PMPReplies(out) # {}) => ~OffLAN(inp.frame.pkt.dst.addr)
    /\ OffLAN(inp.frame.pkt.dst.addr) =>
         /\ PortMapCalls = {}
         /\ PMPReplies(out) = {}
         /\ IF inp.frame.pkt.dst.addr = fakeSyslog4 THEN calls = <<>> /\ out = {}
            ELSE WentOut

\* C24 (as stated): addressed to any off-LAN IP, the NAT-PMP datagram is
\* outbound-NATed and routed as transit UDP.
C24_OffLANAlwaysNATed ==
  (ReadNATPMP /\ OffLAN(inp.frame.pkt.dst.addr))
    => PortMapCalls = {} /\ PMPReplies(out) = {} /\ WentOut

\* A map request addressed to a peer's port 5351 has left through the NAT.
C24_Witness ==
  /\ ReadNATPMP
  /\ inp.frame.pkt.dst.addr = "52.52.0.9"
  /\ Len(inp.frame.pkt.payload) = 12
  /\ WentOut
  /\ calls[1].ok
  /\ portMap = EmptyMap

\* A map request addressed to the router's LAN address has been granted
\* and answered.
C24_HandledWitness ==
  /\ ReadNATPMP
  /\ inp.frame.pkt.dst.addr = lanIP4
  /\ PortMapCalls # {}
  /\ PMPReplies(out) # {}

(***************************************************************************)
(* Properties of the link-layer dispatch.                                  *)
(***************************************************************************)
\* An IPv6 frame that the neighbor-discovery handling does not consume: it
\* is not for an IPv6-multicast MAC and is no neighbor solicitation for the
\* router's MAC.
PastNDP(ep) ==
  /\ ep.etype = "IPv6"
  /\ ~IsIPv6Multicast(ep.dst)
  /\ ~(ep.dst = RouterMAC /\ ep.pkt.kind = "ns")

\* The step from the current state is the router's handling of ep, with
\* the writes lan made beside it.
RouterStep(ep, lan) ==
  \E r \in HandleEthernetPacketForRouter(State, writers, now, portmap, ep) :
    /\ out' = lan \cup r.out
    /\ calls' = r.calls
    /\ macOfIPv6' = r.st.macOfIPv6
    /\ portMap' = r.st.portMap
    /\ natTable' = r.st.natTable

\* The step wrote ep as it is to every registered writer.
Flooded(ep) == \A mac \in DOMAIN writers : Write(writers, mac, ep) \in out'

\* The step wrote ep as it is to no writer.
NotOnLAN(ep) == \A wr \in out' : wr.frame # ep

\* What the claim says of a step that read ep, for the frames in scope.
DispatchRule(ep) ==
  /\ IsBroadcast(ep.dst) => Flooded(ep) /\ RouterStep(ep, writeEth(writers, ep))
  /\ (ep.dst = RouterMAC \/ IsIPv6Multicast(ep.dst)) => NotOnLAN(ep) /\ RouterStep(ep, {})

\* C25 (as the code has it): an IPv4 frame, or on a Network with IPv6 an
\* IPv6 frame that neighbor discovery does not consume, is written to
\* every registered writer and handled by the router when its destination
\* MAC is broadcast, and handled by the router without being written to
\* any writer when its destination MAC is the router's or IPv6 multicast;
\* no frame for the router's MAC or an IPv6-multicast MAC is ever written
\* as it is to a writer.
C25_BroadcastBothRouterOnly ==
  [][inp'.kind = "frame"
       => /\ (inp'.frame.etype = "IPv4" \/ (v6 /\ PastNDP(inp'.frame)))
               => DispatchRule(inp'.frame)
          /\ (inp'.frame.dst = RouterMAC \/ IsIPv6Multicast(inp'.frame.dst))
               => NotOnLAN(inp'.frame)]_vars

\* C25 (as stated): the same of every IPv6 frame that neighbor discovery
\* does not consume, whether or not the Network has IPv6.
C25_AnyNetwork ==
  [][inp'.kind = "frame"
       => ((inp'.frame.etype = "IPv4" \/ PastNDP(inp'.frame))
             => DispatchRule(inp'.frame))]_vars

\* A broadcast external-address request has reached both registered
\* writers as it is, and Node 1 has the router's reply as well.
C25_Witness ==
  /\ inp.kind = "frame"
  /\ IsBroadcast(inp.frame.dst)
  /\ isNATPMP(inp.frame.pkt)
  /\ DOMAIN writers = {Node1MAC, Node2MAC}
  /\ \A mac \in DOMAIN writers : Write(writers, mac, inp.frame) \in out
  /\ \E wr \in out : wr.frame.src = RouterMAC /\ wr.to = Node1MAC

\* The same request sent to the router's MAC: the reply and nothing else.
C25_RouterOnlyWitness ==
  /\ inp.kind = "frame"
  /\ inp.frame.dst = RouterMAC
  /\ isNATPMP(inp.frame.pkt)
  /\ DOMAIN writers = {Node1MAC, Node2MAC}
  /\ Cardinality(out) = 1
  /\ \A wr \in out : wr.frame.src = RouterMAC /\ wr.to = Node1MAC

\* A broadcast IPv6 datagram on a Network with IPv6: written to every
\* writer, and its source learnt by the router.
C25_V6Witness ==
  /\ inp.kind = "frame"
  /\ IsBroadcast(inp.frame.dst)
  /\ inp.frame.etype = "IPv6"
  /\ inp.frame.pkt.kind = "udp"
  /\ Has(macOfIPv6, Node1IP6)
  /\ \E wr \in out : wr.frame = inp.frame

\* A frame for one station that is not the router.
Unicast(ep) ==
  ~IsBroadcast(ep.dst) /\ ep.dst # RouterMAC /\ ~IsIPv6Multicast(ep.dst)

\* srcNode.net.writers: the writers of the Network the sender is on.
SenderWriters(ep) == IF ep.src = Node3MAC THEN writers2 ELSE writers

\* The writes of the last step that carry the frame it read.
Copies == {wr \in out : wr.frame = inp.frame}

\* C26: a unicast frame that is not for the router is written to one
\* writer at most, the one registered for its destination MAC on the
\* sender's Network, and to none when no writer is registered there.
C26_UnicastOneWriter ==
  (inp.kind = "frame" /\ Unicast(inp.frame))
    => IF Has(SenderWriters(inp.frame), inp.frame.dst)
       THEN Copies \subseteq
              {Write(SenderWriters(inp.frame), inp.frame.dst, inp.frame)}
       ELSE Copies = {}

\* Node 2's frame for Node 1 has reached Node 1's connection and no other,
\* with both Nodes registered.
C26_Witness ==
  /\ inp.kind = "frame"
  /\ inp.frame.src = Node2MAC
  /\ inp.frame.dst = Node1MAC
  /\ DOMAIN writers = {Node1MAC, Node2MAC}
  /\ out = {Write(writers, Node1MAC, inp.frame)}

\* Node 3's frame for Node 1 is dropped although Node 1 has a writer on
\* its own Network.
C26_CrossWitness ==
  /\ inp.kind = "frame"
  /\ inp.frame.src = Node3MAC
  /\ inp.frame.dst = Node1MAC
  /\ Has(writers, Node1MAC)
  /\ Has(writers2, Node3MAC)
  /\ out = {}

\* Node 1's frame for Node 3 is dropped although Node 3 has a writer on
\* its own Network.
C26_CrossBackWitness ==
  /\ inp.kind = "frame"
  /\ inp.frame.src = Node1MAC
  /\ inp.frame.dst = Node3MAC
  /\ Has(writers2, Node3MAC)
  /\ out = {}

\* The step read a TCP segment in a frame for the router's MAC whose
\* destination IP needs forwarding.
ReadTransitTCP ==
  /\ inp'.kind = "frame"
  /\ inp'.frame.dst = RouterMAC
  /\ inp'.frame.pkt.kind = "tcp"
  /\ OffLAN(inp'.frame.pkt.dst.addr)

\* No branch of acceptTCP serves or proxies a stream to ip:port.
NoRule(ip, port) ==
  /\ port # 123
  /\ ~(port = 8008 /\ ip = fakeTestAgent4)
  /\ ~(port = 80 /\ ip = fakeControl4)
  /\ ~(port \in {80, 443} /\ ip \in {fakeDERP1v4, fakeDERP2v4})
  /\ ~(port = 443 /\ ip = fakeLogCatcher4)
  /\ ip \notin derpIPs
  /\ ip # fakeProxyControlplane4

\* C27: a TCP segment that needs forwarding and that the interception
\* policy does not match is dropped: the router makes no NAT call, writes
\* nothing, records nothing for the LAN or WAN side and leaves the NAT
\* state alone.  An intercepted stream goes to acceptTCP and through no
\* NAT call either, and is reset when no backend or proxy rule matches.
C27_OnlyUDPCrossesWAN ==
  [][ReadTransitTCP
       => /\ natTable' = natTable
          /\ portMap' = portMap
          /\ portMapFlow' = portMapFlow
          /\ out' = {}
          /\ pcap'.recs = <<Rec(InterfaceOf(inp'.frame.src), inp'.frame)>>
          /\ IF ~shouldInterceptTCP(inp'.frame.pkt)
             THEN calls' = <<>>
             ELSE /\ Len(calls') = 1
                  /\ calls'[1].op = "acceptTCP"
                  /\ NoRule(inp'.frame.pkt.dst.addr, inp'.frame.pkt.dst.port)
                       => ~calls'[1].ok /\ calls'[1].via = "rst"]_vars

\* A segment for port 22 of the control-plane address has been dropped.
C27_Witness ==
  /\ inp.kind = "frame"
  /\ inp.frame.pkt.kind = "tcp"
  /\ inp.frame.pkt.dst = AP(fakeControl4, 22)
  /\ calls = <<>>
  /\ out = {}
  /\ nops = 1

\* An intercepted stream to port 443 of the control-plane address has
\* been reset.
C27_ResetWitness ==
  /\ inp.kind = "frame"
  /\ inp.frame.pkt.kind = "tcp"
  /\ inp.frame.pkt.dst = AP(fakeControl4, 443)
  /\ Len(calls) = 1
  /\ calls[1].op = "acceptTCP"
  /\ ~calls[1].ok

\* The step handed the frame it read to the router's handler: a frame for
\* the router's MAC, the broadcast MAC or an IPv6-multicast MAC that the
\* link-layer dispatch lets through.
ReachedRouter ==
  /\ inp'.kind = "frame"
  /\ inp'.frame.dst = RouterMAC \/ IsBroadcast(inp'.frame.dst)
       \/ IsIPv6Multicast(inp'.frame.dst)
  /\ inp'.frame.etype = "IPv4" \/ (v6 /\ PastNDP(inp'.frame))

\* How nodeForDestIP resolves an IPv6 address that is no Node's LAN IP.
Resolves(ip, mac) == nodeForDestIP(macOfIPv6', ip) = <<nodeByMAC[mac], TRUE>>
Unresolved(ip) == ~nodeForDestIP(macOfIPv6', ip)[2]

\* C28: a packet from an IPv6 source that reaches the router's handler
\* leaves macOfIPv6[source IP] = the frame's source MAC, whatever the
\* handler then does with it; an entry of macOfIPv6 appears or changes
\* only that way; and nodeForDestIP resolves an IPv6 address to the Node
\* that owns the MAC of the latest such packet, and fails for an address
\* that has no entry.
C28_SourceLearnt ==
  [][/\ (ReachedRouter /\ Is6(inp'.frame.pkt.src.addr))
          => /\ Has(macOfIPv6', inp'.frame.pkt.src.addr)
             /\ macOfIPv6'[inp'.frame.pkt.src.addr] = inp'.frame.src
             /\ Resolves(inp'.frame.pkt.src.addr, inp'.frame.src)
     /\ \A ip \in V6Addrs :
          IF Has(macOfIPv6', ip)
          THEN (~Has(macOfIPv6, ip) \/ macOfIPv6[ip] # macOfIPv6'[ip])
                 => /\ ReachedRouter
                    /\ inp'.frame.pkt.src.addr = ip
                    /\ inp'.frame.src = macOfIPv6'[ip]
          ELSE ~Has(macOfIPv6, ip) /\ Unresolved(ip)]_vars

\* Node 1's address has been learnt from Node 1 and then from Node 2, the
\* second time from a TCP segment the router dropped: it now resolves to
\* Node 2.
C28_Witness ==
  /\ inp.kind = "frame"
  /\ inp.frame.src = Node2MAC
  /\ inp.frame.pkt.kind = "tcp"
  /\ inp.frame.pkt.dst.port = 22
  /\ calls = <<>>
  /\ nops = 2
  /\ nodeForDestIP(macOfIPv6, Node1IP6) = <<"node2", TRUE>>
  /\ ~nodeForDestIP(macOfIPv6, Peer6)[2]

\* A reply to the learnt address has been written to its owner.
C28_AnsweredWitness ==
  /\ inp.kind = "frame"
  /\ inp.frame.etype = "IPv6"
  /\ isNATPMP(inp.frame.pkt)
  /\ macOfIPv6[Node1IP6] = Node1MAC
  /\ \E wr \in out : wr.to = Node1MAC /\ wr.frame.src = RouterMAC

\* ---------------------------------------------------------------------------
\* C29

\* The step read a frame whose source MAC is the MAC of no Node.
ReadFromNoNode ==
  /\ inp'.kind \in ReadKinds
  /\ inp'.frame.src \notin AllNodeMACs

\* C29: a frame whose source MAC is not in the MAC-to-Node index is dropped by
\* the read loop: no writer is registered for it, it is not dispatched (no
\* handler call, no crash), the NAT tables, the port mappings and the learnt
\* IPv6 sources stay as they were, no frame is written to any connection, and
\* the connection is still being read, so its later frames are processed.
C29_UnknownSourceDropped ==
  [][ReadFromNoNode =>
       /\ inp'.kind = "unknown"
       /\ writers' = writers /\ writers2' = writers2
       /\ registered' = registered
       /\ natTable' = natTable /\ natStyle' = natStyle
       /\ portMap' = portMap /\ portMapFlow' = portMapFlow
       /\ macOfIPv6' = macOfIPv6
       /\ out' = {} /\ calls' = <<>> /\ pcap' = NoRecords
       /\ crashed' = crashed /\ writeFailed' = writeFailed
       /\ conns' = conns /\ afterFunc' = afterFunc
       /\ conns'[ConnOf(inp'.frame)] = "read"]_vars

\* A port-map request from a MAC no Node has was just dropped on a connection
\* that already carries a registered Node, on a Network that handles port
\* mapping.
C29_Witness ==
  /\ inp.kind = "unknown"
  /\ isNATPMP(inp.frame.pkt)
  /\ portmap
  /\ Has(writers, Node1MAC)
  /\ portMap = EmptyMap
  /\ conns["c1"] = "read"

\* After a frame from an unknown MAC was dropped, a later frame of the same
\* connection was dispatched and answered.
C29_LaterWitness ==
  /\ "got frame from unknown MAC" \in logs
  /\ inp.kind = "frame"
  /\ ConnOf(inp.frame) = "c1"
  /\ nops = 3
  /\ out # {}

\* ---------------------------------------------------------------------------
\* C30

\* Every Network's stack reader has returned.
ReadersExited == \A n \in Networks : reader[n] = "exited"

\* A stack reader's read returned no packet in this step.
ReadNil == inp'.kind = "netstack-nil"

\* C30: once the shutdown context is done, every Network's stack reader
\* eventually returns, given that the scheduler is fair; a reader returns the
\* first time its read yields no packet while the context is done, and logs
\* nothing when it does; it returns in no other step.
C30_ReadersExit ==
  /\ shutdownCtx ~> ReadersExited
  /\ [][/\ ReadNil /\ shutdownCtx
             => /\ \E n \in Networks : reader[n] = "read" /\ reader'[n] = "exited"
                /\ logs' = logs
        /\ \A n \in Networks :
             reader'[n] # reader[n]
               => reader[n] = "read" /\ reader'[n] = "exited" /\ ReadNil /\ shutdownCtx]_vars

\* Both readers have returned after Close cancelled the shutdown context and
\* Close has returned; the first Network's reader had handled a segment for
\* an address no Node has, and packets it never read are still queued.
C30_Witness ==
  /\ ReadersExited
  /\ shutdownCtx
  /\ linkQ["net1"] # <<>>
  /\ "no node for netstack dest IP" \in logs
  /\ closePc = "returned"

\* A reader is handing a segment to a Node after the shutdown context is done.
C30_BusyWitness ==
  /\ shutdownCtx
  /\ inp.kind = "netstack"
  /\ out # {}
  /\ reader = [n \in Networks |-> "read"]

\* ---------------------------------------------------------------------------
\* C31

\* The mutexes worker w holds.
Holding(w) == {m \in Mutexes : held[m] = w}

\* Worker w is at a Lock call.
AtLock(w) == hprog[w] # <<>> /\ Head(hprog[w]).op = "lock"

\* Worker w is at a Lock call on a mutex that is held.
WaitingForLock(w) == AtLock(w) /\ held[Head(hprog[w]).mu] # NoHolder

\* C31: no worker is at a Lock call while it holds a mutex, so natMu is
\* never held while a natMu, a macMu or the Server's mu is being acquired;
\* the strategy's callbacks run with natMu held by their caller and do not
\* take it; a worker that waits for a mutex waits for a worker that is not
\* waiting itself, so some worker can always go on.
C31_NoLockHeldWhileLocking ==
  /\ \A w \in Workers : AtLock(w) => Holding(w) = {}
  /\ \A w \in Workers :
       hprog[w] # <<>> /\ Head(hprog[w]).op = "held" => held[Head(hprog[w]).mu] = w
  /\ \A w \in Workers :
       WaitingForLock(w) => /\ held[Head(hprog[w]).mu] \in Workers \ {w}
                     /\ ~WaitingForLock(held[Head(hprog[w]).mu])
  /\ \A w \in Workers :
       hprog[w] # <<>> /\ Head(hprog[w]).op = "unlock" => held[Head(hprog[w]).mu] = w

\* Two Networks forward IPv4 datagrams to each other: one worker, coming
\* from the first Network, is in doNATIn of the second and holds its natMu;
\* the other is about to forward from the second Network and waits for that
\* natMu at the start of doNATOut.
C31_Witness ==
  /\ hprog["w1"] = Tail(HandleUDPPacketSteps("net2", wanIP4))
  /\ held[natMuOf("net2")] = "w1"
  /\ hprog["w2"] = ForwardSteps("net2", "net1", Node1IP4, wanIP4)
  /\ WaitingForLock("w2")

\* A Network hairpins to itself while another worker forwards from it: one
\* worker is in the strategy's callback under natMu and the other, on its
\* way into doNATIn of the same Network, waits.
C31_HairpinWitness ==
  /\ hprog["w1"] # <<>>
  /\ Head(hprog["w1"]).op = "held"
  /\ hprog["w2"] = HandleUDPPacketSteps("net1", wanIP4)
  /\ WaitingForLock("w2")

\* ---------------------------------------------------------------------------
\* C32

\* C32: at most one port-mapping entry has a given LAN target, whatever
\* map, refresh, delete and expiry steps came before.
C32_OneEntryPerTarget ==
  \A k1 \in DOMAIN portMap, k2 \in DOMAIN portMap :
    portMap[k1].dst = portMap[k2].dst => k1 = k2

\* Two LAN targets are mapped, each by one entry, after a third request
\* was made: the last request refreshed, or was granted, 49152.
C32_Witness ==
  /\ Cardinality(DOMAIN portMap) = 2
  /\ nops = 3
  /\ Len(calls) = 1
  /\ calls[1].op = "portMap"
  /\ calls[1].ok
  /\ calls[1].res = AP(wanIP4, 49152)

\* ---------------------------------------------------------------------------
\* C33

\* C33: a port-mapping entry never passes to another LAN target: an external
\* port that is mapped before and after a step is mapped to the same LAN
\* target, so a request for a port that another target's mapping holds gets
\* a different port or fails.
C33_NoTakeover ==
  [][\A k \in DOMAIN portMap \cap DOMAIN portMap' :
       portMap'[k].dst = portMap[k].dst]_vars

\* ---------------------------------------------------------------------------
\* C34

\* The agent connections takeAgentConn calls have returned.
Taken == {tgot[t] : t \in Takers} \ {NoAgentConn}

\* C34: a connection added to the pool is returned by at most one
\* takeAgentConn call, and by a call made for the connection's Node; the
\* pool holds exactly the connections added and not returned, so a call
\* that ended by cancellation, which returns no connection, has removed
\* none.
C34_TakenOnce ==
  /\ \A t \in Takers, u \in Takers :
       tgot[t] # NoAgentConn /\ tgot[t] = tgot[u] => t = u
  /\ \A t \in Takers :
       tgot[t] # NoAgentConn => tpc[t] = "done" /\ tgot[t].node = TakerNode(t)
  /\ \A t \in Takers : tpc[t] = "cancelled" => tgot[t] = NoAgentConn
  /\ agentConns \cap Taken = {}
  /\ agentConns \cup Taken = accepted

\* Both callers for Node 1 have returned, each with another connection of
\* Node 1, while Node 2's connection is in the pool and the caller for
\* Node 2 has ended by cancellation.
C34_Witness ==
  /\ tpc["t1"] = "done"
  /\ tpc["t2"] = "done"
  /\ tgot["t1"] # tgot["t2"]
  /\ tpc["t3"] = "cancelled"
  /\ AgentConn("node2", 1) \in agentConns

\* ---------------------------------------------------------------------------
\* C35

\* C35: every entry of the write-dispatch table is the writer of a
\* connection whose ServeUnixConn call has not returned: a returned call has
\* no registration left and no entry names its connection, also when two
\* connections register the same source MAC at the same time.
C35_WritersOfLiveConns ==
  /\ \A m \in DOMAIN writers : conns[writers[m]] # "returned"
  /\ \A c \in Conns : conns[c] = "returned" => registered[c] = {}
  /\ \A c \in Conns : registered[c] # {} => conns[c] \in {"read", "store"}

\* Both connections missed Node 1's MAC in the table and went on to
\* register it; the first did and has returned since, the second is about
\* to store its writer.
C35_Witness ==
  /\ conns["c1"] = "returned"
  /\ conns["c2"] = "store"
  /\ regMAC["c1"] = Node1MAC
  /\ regMAC["c2"] = Node1MAC
  /\ "Registering writer" \in logs
  /\ ~Has(writers, Node1MAC)

\* The second connection has stored its writer over the first one's, and
\* the first connection has returned: the entry is the second one's.
C35_OverWitness ==
  /\ conns["c1"] = "returned"
  /\ regMAC["c1"] = Node1MAC
  /\ Has(writers, Node1MAC)
  /\ writers[Node1MAC] = "c2"

\* ---------------------------------------------------------------------------
\* C36

\* MAC m has a writer in the table of its Node's Network, the tables being
\* w for the first Network and w2 for the second.
HasWriter(w, w2, m) == IF m = Node3MAC THEN Has(w2, m) ELSE Has(w, m)

\* C36: the frame that makes the read loop register a writer for its source
\* MAC is consumed by the registration: the step stores the writer and
\* writes nothing to any connection, makes no NAT call and leaves the NAT
\* state and the learnt IPv6 sources as they were.  A frame is dispatched
\* only if its source MAC had a writer when it was read, and it is dispatched
\* in the step that read it, before the loop reads the next frame: the
\* step's first record is of that frame.
C36_RegisteringFrameConsumed ==
  [][/\ inp'.kind = "register" /\ inp'.frame # NilFrame
          => /\ ~HasWriter(writers, writers2, inp'.frame.src)
             /\ HasWriter(writers', writers2', inp'.frame.src)
             /\ out' = {} /\ calls' = <<>> /\ pcap' = NoRecords
             /\ natTable' = natTable /\ portMap' = portMap /\ portMapFlow' = portMapFlow
             /\ macOfIPv6' = macOfIPv6
             /\ ~crashed'
     /\ inp'.kind = "frame"
          => /\ HasWriter(writers, writers2, inp'.frame.src)
             /\ writers' = writers /\ writers2' = writers2
             /\ ~crashed' => /\ Len(pcap'.recs) >= 1
                             /\ pcap'.recs[1].frame = inp'.frame]_vars

\* Node 1's first frame, an ARP request for the router's address, was
\* consumed by the registration while Node 2 has a writer.
C36_Witness ==
  /\ inp.kind = "register"
  /\ inp.frame.src = Node1MAC
  /\ inp.frame.etype = "ARP"
  /\ inp.frame.pkt.target = lanIP4
  /\ Has(writers, Node2MAC)
  /\ writers[Node1MAC] = "c1"
  /\ out = {}

\* The same ARP request, read again from the same connection, is answered.
C36_LaterWitness ==
  /\ inp.kind = "frame"
  /\ inp.frame.src = Node1MAC
  /\ inp.frame.etype = "ARP"
  /\ inp.frame.pkt.target = lanIP4
  /\ nops = 2
  /\ out # {}

(***************************************************************************)
(* Properties of a Network with port mapping disabled.                     *)
(***************************************************************************)
\* The natIn calls of the step that resolved an IPv4 destination otherwise
\* than by the NAT strategy.
NotByStrategy(cs) ==
  {i \in DOMAIN cs : cs[i].op = "natIn" /\ ~Is6(cs[i].b.addr) /\ cs[i].via # "strategy"}

\* C37: on a Network with port mapping disabled, a NAT-PMP request
\* (external-address, map or delete) gets no reply and makes no port
\* mapping, no step changes the port-mapping table or the hairpin-flow
\* cache, and every inbound IPv4 datagram is resolved by the NAT strategy.
C37_DisabledPortMapInert ==
  [][~portmap =>
       /\ portMap' = portMap
       /\ portMapFlow' = portMapFlow
       /\ (ReadNATPMP' /\ ~OffLAN(inp'.frame.pkt.dst.addr)) => out' = {} /\ calls' = <<>>
       /\ NotByStrategy(calls') = {}]_vars

\* With port mapping disabled, a map request for external port 49152 has
\* been read and ignored.
C37_Witness ==
  /\ ~portmap
  /\ ReadNATPMP
  /\ inp.frame.pkt.dst.addr = lanIP4
  /\ Len(inp.frame.pkt.payload) = 12
  /\ BE16(inp.frame.pkt.payload, 7) = 49152
  /\ BE32(inp.frame.pkt.payload, 9) > 0
  /\ out = {}
  /\ portMap = EmptyMap

\* With port mapping disabled, an external-address request has been read
\* and ignored.
C37_AddressWitness ==
  /\ ~portmap
  /\ ReadNATPMP
  /\ inp.frame.pkt.payload = <<0, 0>>
  /\ out = {}

\* With port mapping disabled, a datagram from the WAN for port 49152 has
\* been resolved by the NAT strategy.
C37_InboundWitness ==
  /\ ~portmap
  /\ inp.kind = "wan"
  /\ inp.frame.pkt.dst.port = 49152
  /\ \E i \in DOMAIN calls : calls[i].op = "natIn" /\ calls[i].via = "strategy"

(***************************************************************************)
(* Properties of InitNAT.                                                  *)
(***************************************************************************)
\* The step was an InitNAT call.
InitNATReturned(cs) == Len(cs) = 1 /\ cs[1].op = "InitNAT"

\* C38: an InitNAT call with an unknown NAT type, or whose constructor
\* fails, returns an error and leaves the active strategy and the style tag
\* as they were; a successful InitNAT installs the strategy of the type
\* asked for and stores the style tag; neither touches the port-mapping
\* table or the hairpin-flow cache.
C38_InitNATAllOrNothing ==
  [][InitNATReturned(calls') =>
       /\ portMap' = portMap
       /\ portMapFlow' = portMapFlow
       /\ calls'[1].via \notin NATTypes => ~calls'[1].ok
       /\ IF calls'[1].ok
          THEN natTable' = NewNATTable(calls'[1].via) /\ natStyle' = calls'[1].via
          ELSE natTable' = natTable /\ natStyle' = natStyle]_vars

\* A hard NAT has been installed over an easy one that had made mappings,
\* next to a port mapping that is still there.
C38_Witness ==
  /\ InitNATReturned(calls)
  /\ calls[1].ok
  /\ calls[1].via = "hard"
  /\ natStyle = "hard"
  /\ natTable = NewNATTable("hard")
  /\ portMap # EmptyMap

\* The constructor of a known NAT type has failed on a Network whose
\* strategy holds a mapping.
C38_FailedWitness ==
  /\ InitNATReturned(calls)
  /\ ~calls[1].ok
  /\ calls[1].via = "hard"
  /\ natStyle = "easy"
  /\ natTable.in # EmptyMap

\* An unknown NAT type has been refused.
C38_UnknownWitness ==
  /\ InitNATReturned(calls)
  /\ ~calls[1].ok
  /\ calls[1].via = "bogus"
  /\ natTable.in # EmptyMap

(***************************************************************************)
(* Properties of the stream framing under concurrent writers.              *)
(***************************************************************************)
IsPrefixOf(s, t) == Len(s) <= Len(t) /\ s = SubSeq(t, 1, Len(s))

\* The stream of the frames pkts: each 4-byte length header followed by
\* its frame.
RECURSIVE Framed(_)
Framed(pkts) ==
  IF pkts = <<>> THEN <<>>
  ELSE StreamHdr(Head(pkts)) \o Head(pkts) \o Framed(Tail(pkts))

\* C39: under concurrent writers to one stream-framed connection, the bytes
\* on the wire are at every moment the beginning of the stream in which
\* each 4-byte length header is followed at once by exactly its own
\* frame's bytes, frame after frame in the order the writers took writeMu;
\* and whenever no writer is inside writePkt and no write has failed, the
\* wire holds exactly those whole frames.
C39_FramesNotInterleaved ==
  /\ IsPrefixOf(wire, Framed(lockOrder))
  /\ ~bw.err => IsPrefixOf(wire \o bw.buf, Framed(lockOrder))
  /\ (writeMu = NoHolder /\ ~bw.err) => wire = Framed(lockOrder) /\ bw.buf = <<>>

\* Both writers have written: a three-byte frame of the one, which fills
\* the buffer, then a nine-byte frame of the other, which is written
\* through, and the wire holds the two frames whole.
C39_Witness ==
  /\ lockOrder = <<FrameOf("h1", 3), FrameOf("h2", 9)>>
  /\ writeMu = NoHolder
  /\ ~bw.err
  /\ wire = Framed(lockOrder)

\* The second writer is inside writePkt: its header and the first bytes of
\* its frame are on the wire behind the first writer's frame, the rest of
\* its frame is still buffered.
C39_MidWitness ==
  /\ Len(lockOrder) = 2
  /\ lockOrder[1] = FrameOf("h1", 1)
  /\ lockOrder[2] = FrameOf("h2", 3)
  /\ writeMu = "h2"
  /\ pktPc["h2"] = "flush"
  /\ bw.buf # <<>>
  /\ Len(wire) > Len(Framed(<<lockOrder[1]>>))

\* A write has failed in the middle of a frame and a later writer has come
\* and gone: the wire ends inside that frame.
C39_FailedWitness ==
  /\ bw.err
  /\ Len(lockOrder) = 3
  /\ writeMu = NoHolder
  /\ wire # <<>>
  /\ Len(wire) < Len(Framed(<<lockOrder[1]>>))
  /\ Len(wire) > 4

(***************************************************************************)
(* Properties of the pooled GRO objects.                                   *)
(***************************************************************************)
\* The object has no dispatcher and no pending mark.
GROReset(o) == o.Dispatcher = NilDispatcher /\ ~o.maybeEnqueued

\* The step was the call op on a GRO object.
GROCalled(op) == groOp'.op = op

\* C40: Enqueue on a GRO without a dispatcher delivers nothing and marks
\* nothing; a packet that RXChecksumOffload refuses is not handed to the
\* coalescer, is not delivered and marks nothing; Flush flushes the
\* coalescer exactly when the object has a dispatcher and a packet was
\* handed to the coalescer since the last Flush, and leaves the object
\* without dispatcher and mark as it puts it into the pool; an object in
\* the pool, and one that NewGRO has just returned, has no dispatcher and
\* no pending mark.
C40_GROLifecycle ==
  [][/\ (GROCalled("Enqueue") /\ groObj[groOp'.g].Dispatcher = NilDispatcher) =>
          /\ ~groOp'.handed
          /\ groDelivered' = groDelivered
          /\ groObj' = groObj
     /\ (GROCalled("Enqueue") /\ RXChecksumOffload(GROPacket(groOp'.pkt)).nil) =>
          /\ ~groOp'.handed
          /\ groDelivered' = groDelivered
          /\ groObj' = groObj
     /\ GROCalled("Flush") =>
          /\ groOp'.flushed <=>
               (groObj[groOp'.g].Dispatcher # NilDispatcher /\ groSince[groOp'.g] > 0)
          /\ ~groOp'.flushed => groDelivered' = groDelivered
          /\ GROReset(groObj'[groOp'.g])
          /\ groAt'[groOp'.g] = "pool"
     /\ GROCalled("NewGRO") => GROReset(groObj'[groOp'.g]) /\ groAt'[groOp'.g] = "used"
     /\ \A g \in GROs : groAt'[g] = "pool" => GROReset(groObj'[g])]_vars

\* NewGRO has returned an object that was used before: it was given a
\* dispatcher, held a TCP segment and was flushed to that dispatcher.
C40_Witness ==
  /\ groOp.op = "NewGRO"
  /\ groAt[groOp.g] = "used"
  /\ groAt[CHOOSE g \in GROs : g # groOp.g] = "none"
  /\ groDelivered = <<<<"d1", "tcp4">>>>
  /\ GROReset(groObj[groOp.g])

\* A packet was enqueued on an object without a dispatcher.
C40_NoDispatcherWitness ==
  /\ groOp.op = "Enqueue"
  /\ groOp.pkt = "udp4"
  /\ groObj[groOp.g].Dispatcher = NilDispatcher
  /\ ~groOp.handed
  /\ groDelivered = <<>>

\* A UDP datagram with a wrong checksum was enqueued on an object that has
\* a dispatcher and has delivered a valid one before.
C40_BadChecksumWitness ==
  /\ groOp.op = "Enqueue"
  /\ groOp.pkt = "udp4-bad"
  /\ groObj[groOp.g].Dispatcher = "d1"
  /\ ~groOp.handed
  /\ groDelivered = <<<<"d1", "udp4">>>>

\* Flush found a held segment but no dispatcher, and flushed nothing.
C40_UnflushedWitness ==
  /\ groOp.op = "Flush"
  /\ ~groOp.flushed
  /\ groObj[groOp.g].held # <<>>
  /\ groAt[groOp.g] = "pool"
====
